---- MODULE Spec2Model ----
(***************************************************************************)
(* Device lifecycle orchestration of np_services (proxies.py, utils.py):   *)
(* the time-windowed data locator, the start/stop/finalize lifecycle of    *)
(* the proxy classes and the stop_on_error scope guard.                    *)
(*                                                                         *)
(* Time is counted in ticks of 1/TicksPerSec second, so that time.time()   *)
(* and st_ctime keep a fractional part and int() really truncates.         *)
(***************************************************************************)
EXTENDS Integers, Sequences, FiniteSets, TLC

\* ---------------------------------------------------------------- bounds
\* ticks per second
TicksPerSec == 2
\* files that may exist in a data root
MaxFiles == 2
\* latest creation time of a file and latest query time, in ticks
MaxCtime == 3
\* seconds one turn of a finalize() wait loop takes
PollSec == 10
\* largest min_rec_hr and gb_per_hr beside the defaults, in tenths
MaxRate == 5
\* how far the free space lies from the requirement, in hundredths of a GB
MaxDelta == 6
\* how many times a class's proxy may be torn down
MaxTeardowns == 2
\* largest size of a data file, in bytes
MaxSize == 2
\* log files a JsonRecorder class may come to hold
MaxLogs == 2
\* ------------------------------------------------------ program constants
\* VideoMVR.finalize: `timedout = lambda: time.time() > t0 + 30`
VideoMVRTimeoutSec == 30
\* ImageMVR.finalize: `timedout = lambda: time.time() > t0 + 10`
ImageMVRTimeoutSec == 10

\* ---------------------------------------------------------- shared state
VARIABLES
    files,      \* data root: sequence of [ctime, ext], in directory order
    now,        \* time.time(), in ticks
    query,      \* arguments of the last get_files_created_between call
    found,      \* what that call returned: file indices, in order
    kind,       \* the proxy class the lifecycle runs on
    dev,        \* what a zro device answers to get_state(): <<coarse, detail>>
    cams,       \* what MVR answers to get_camera_status(): per-camera flags
    online,     \* the device host answers (ping, zro call, MVR status request)
    buffer,     \* the broadcast waiting in the MVR connector's message buffer
    rootOk,     \* the device's data root can be accessed
    proxy,      \* cls.proxy is memoized
    exc,        \* cls.exc
    latest_start, \* cls.latest_start, in ticks
    sent,       \* commands the last operation sent to the device
    op,         \* the last operation that ran
    result,     \* what it raised to its caller (Ok: returned normally)
    scope,      \* "in" while a `with stop_on_error(cls)` body runs
    reraise,    \* the reraise argument of that scope
    observed,   \* what the code around the with statement saw at its exit
    scopeStart, \* start() was called in the scope
    scopeStop,  \* stop() was called since the scope opened
    pc,         \* "idle", or "finalize" while finalize() sleeps in its loop
    waited,     \* time.time() - t0 of the running finalize(), in ticks
    data_files, \* cls.data_files: None or a list of file indices
    new,        \* the files the last finalize() call discovered
    min_rec_hr, \* cls.min_rec_hr, in tenths of an hour
    gb_per_hr,  \* cls.gb_per_hr, in tenths of a GB per hour
    free,       \* free space on the data root's disk, in hundredths of a GB
    configured, \* a data root is set on the class or named in the config
    all_files,  \* JsonRecorder: the contents of the files in cls.all_files
    tested,     \* how the last test() since the last initialize() ended
    steps,      \* the lifecycle calls the last pretest() made, in order
    own,        \* the handle in the class's own `proxy` attribute
    created,    \* how many handles get_proxy() has created for the class
    teardowns,  \* how many times a `del cls.proxy` has run
    parent_proxy, \* the parent class holds a memoized handle of its own
    ret,        \* what the last call returned: <<value>>, <<>> for nothing
    initialization, \* cls.initialization of the device class, in ticks; 0: unset
    at_call,    \* data_files and initialization as the running initialize() found them
    sampled     \* what the last call looked at: verify() <<size_0, size_1>> of the
                \* latest file, validate() <<data, size>> (data 0: None),
                \* JsonRecorder.write() <<value>>

fileVars == <<files, now>>
queryVars == <<query, found>>
envVars == <<dev, cams, online>>
scopeVars == <<scope, reraise, observed, scopeStart, scopeStop>>
finVars == <<pc, waited, data_files>>
diskVars == <<min_rec_hr, gb_per_hr, free, configured>>
histVars == <<tested, steps>>
proxyVars == <<proxy, own, created>>
tearVars == <<teardowns, parent_proxy>>
initVars == <<initialization, at_call>>
preVars == <<diskVars, initVars, all_files, histVars, tearVars>>
vars == <<files, now, query, found, kind, dev, cams, online, buffer, rootOk, proxy, exc,
          latest_start, sent, op, result, scope, reraise, observed, scopeStart,
          scopeStop, pc, waited, data_files, new, min_rec_hr, gb_per_hr, free,
          configured, all_files, tested, steps, own, created, teardowns,
          parent_proxy, ret, initialization, at_call, sampled>>

\* ------------------------------------------------------------------ time
Sec(n) == n * TicksPerSec

\* Python int() of a non-negative float: the whole seconds, fraction dropped.
IntTrunc(t) == (t \div TicksPerSec) * TicksPerSec

Min(a, b) == IF a <= b THEN a ELSE b

\* The lifecycle's clock counts up to LateTime, the first whole second after
\* MaxCtime, which stands for every later time: files are only created up to
\* MaxCtime and int(LateTime) lies after MaxCtime, so every comparison of the
\* clock with a creation time comes out as it does for the exact time.
LateTime == ((MaxCtime \div TicksPerSec) + 1) * TicksPerSec
ClockAfter(d) == Min(now + d, LateTime)

\* --------------------------------------------------------- data locator
Exts == {"h5", "sync"}
Globs == {"*", "*.h5", "*.sync"}

\* `end=None` of get_files_created_between
NoEnd == -1

\* pathlib's Path.glob for the patterns the proxies use: "*" matches every
\* file, "*.ext" the files of that suffix, a pattern without wildcard only a
\* file of exactly that name (none of the modelled files).
GlobMatches(glob, f) ==
    CASE glob = "*" -> TRUE
      [] glob = "*.h5" -> f.ext = "h5"
      [] glob = "*.sync" -> f.ext = "sync"
      [] glob = "*.pkl" -> f.ext = "pkl"
      [] glob = "*.mp4" -> f.ext = "mp4"
      [] glob = "*.json" -> f.ext = "json"
      [] OTHER -> FALSE

\* sorted(files, key=ctime): ascending creation time; sorted() is stable, so
\* files of equal ctime stay in directory order.
RECURSIVE SortByCtime(_, _)
SortByCtime(fs, idx) ==
    IF idx = {} THEN <<>>
    ELSE LET least == CHOOSE i \in idx :
                        \A j \in idx :
                            \/ fs[i].ctime < fs[j].ctime
                            \/ (fs[i].ctime = fs[j].ctime /\ i <= j)
         IN <<least>> \o SortByCtime(fs, idx \ {least})

\* a filter that leaves out a file created exactly at `end`
InWindow_open_end(c, start, end) == IntTrunc(start) <= c /\ c < end

\* the filter of get_files_created_between: `int(start) <= ctime(file) <= end`
InWindow(c, start, end) == IntTrunc(start) <= c /\ c <= end

get_files_created_between(fs, glob, start, end, clock) ==
    LET e == IF end = NoEnd \/ end = 0 THEN clock ELSE end
        keep == {i \in 1..Len(fs) :
                    GlobMatches(glob, fs[i]) /\ InWindow(fs[i].ctime, start, e)}
    IN SortByCtime(fs, keep)

\* ------------------------------------------------------------ exceptions
\* An exception is the pair of its class and the operation that raised it;
\* Ok stands for "nothing raised" (and for cls.exc = None).
Ok == [type |-> "None", site |-> "none"]
Exc(t, s) == [type |-> t, site |-> s]

\* --------------------------------------------------------- device classes
ZroKinds == {"Sync", "Camstim", "ScriptCamstim"}
MVRKinds == {"VideoMVR", "ImageMVR"}
Kinds == ZroKinds \cup MVRKinds

\* classes whose get_state() is Proxy.get_state, the zro device's own
\* answer: the lifecycle classes above and Cam3d, which has no finalize()
StateKinds == ZroKinds \cup {"Cam3d"}

\* classes that inherit CamstimSyncShared.start unchanged
SharedStartKinds == {"Sync", "Camstim", "Cam3d"}

Range(t) == {t[i] : i \in DOMAIN t}

\* the ProxyState tuples a zro device reports
DevStates == {<<"READY", "">>, <<"BUSY", "RECORDING">>,
              <<"BUSY", "Script in progress.">>}

\* Cam3d reports its cameras in the detail of a READY state
CamerasAcquiring == <<"READY", "CAMERAS_OPEN,CAMERAS_ACQUIRING">>
DeviceStates(k) == IF k = "Cam3d" THEN DevStates \cup {CamerasAcquiring} ELSE DevStates

\* cameras an MVR class drives, and the flags get_camera_status() reports
Cameras == {"cam1", "cam2"}

started_state(k) ==
    CASE k = "Sync" -> {"BUSY", "RECORDING"}
      [] k \in {"Camstim", "ScriptCamstim"} -> {"BUSY", "Script in progress."}
      [] k = "VideoMVR" -> {"BUSY", "RECORDING"}
      [] k = "Cam3d" -> {"READY", "CAMERAS_OPEN,CAMERAS_ACQUIRING"}

\* a get_state() that looks at recording before open and streaming
MVR_get_state_recording_first(on, c) ==
    IF ~on THEN <<"", "MVR_CLOSED">>
    ELSE IF \E x \in Cameras : c[x].is_recording THEN <<"BUSY", "RECORDING">>
    ELSE IF \E x \in Cameras : ~c[x].is_open THEN <<"", "CAMERA_CLOSED">>
    ELSE IF \E x \in Cameras : ~c[x].is_streaming THEN <<"", "CAMERA_NOT_STREAMING">>
    ELSE <<"READY", "">>

\* MVR.get_state: is_connected() first, then the camera flags by priority
MVR_get_state(on, c) ==
    IF ~on THEN <<"", "MVR_CLOSED">>
    ELSE IF \E x \in Cameras : ~c[x].is_open THEN <<"", "CAMERA_CLOSED">>
    ELSE IF \E x \in Cameras : ~c[x].is_streaming THEN <<"", "CAMERA_NOT_STREAMING">>
    ELSE IF \E x \in Cameras : c[x].is_recording THEN <<"BUSY", "RECORDING">>
    ELSE <<"READY", "">>

\* Proxy.get_state / MVR.get_state, for a device that answers
get_state == IF kind \in StateKinds THEN dev ELSE MVR_get_state(online, cams)

\* what ImageMVR.is_started finds in get_proxy().read(): a snapshot_converted
\* broadcast, or nothing that makes it answer True
Broadcasts == {"none", "snapshot_converted"}

\* CamstimSyncShared.is_started, VideoMVR.is_started, ImageMVR.is_started
is_started ==
    IF kind = "ImageMVR" THEN buffer = "snapshot_converted"
    ELSE LET state == get_state
         IN Len(state) # 0 /\ \A msg \in started_state(kind) : msg \in Range(state)

\* a readiness test that leaves out `if cls.is_started(): return False`
is_ready_to_start_unguarded ==
    IF kind \in StateKinds THEN "READY" \in Range(get_state)
    ELSE \A x \in Cameras :
            cams[x].is_open /\ cams[x].is_streaming /\ ~cams[x].is_recording

\* CamstimSyncShared.is_ready_to_start, MVR.is_ready_to_start
is_ready_to_start ==
    IF is_started THEN FALSE
    ELSE IF kind \in StateKinds THEN "READY" \in Range(get_state)
    ELSE \A x \in Cameras :
            cams[x].is_open /\ cams[x].is_streaming /\ ~cams[x].is_recording

\* What a status probe raises instead of answering: get_proxy() runs
\* ensure_config() when no proxy is memoized, which raises FileNotFoundError
\* for an inaccessible data root; a zro call to a silent host raises ZroError.
\* MVR.get_state() answers ("", "MVR_CLOSED") for a silent host, but
\* get_camera_status() raises ConnectionError. ImageMVR.is_started only reads
\* the connector's buffer.
CanGetProxy == proxy \/ rootOk

\* Handles are numbered as get_proxy() creates them; a class that has not
\* set `proxy` itself has none of its own, and a subclass may hold its
\* parent's handle.
NoHandle == 0
ParentHandle == -1

\* get_proxy() creates a handle when the call leaves a proxy memoized
\* (`px`) and `cls.proxy` found none before; the mutant creates one anyway
Creates_always(px) == px
Creates(px) == px /\ ~proxy

\* cls.proxy after a call that uses get_proxy()
Memoize(px) ==
    /\ proxy' = px
    /\ own' = IF Creates(px) THEN created + 1 ELSE own
    /\ created' = IF Creates(px) THEN created + 1 ELSE created

is_started_raises(site) ==
    IF kind \in StateKinds
    THEN IF ~CanGetProxy THEN Exc("FileNotFoundError", site)
         ELSE IF ~online THEN Exc("ZroError", site)
         ELSE Ok
    ELSE IF kind = "ImageMVR"
    THEN IF ~CanGetProxy THEN Exc("FileNotFoundError", site) ELSE Ok
    ELSE IF online /\ ~CanGetProxy THEN Exc("FileNotFoundError", site)
         ELSE Ok

is_ready_to_start_raises(site) ==
    IF is_started_raises(site) # Ok THEN is_started_raises(site)
    ELSE IF kind \in MVRKinds /\ ~is_started /\ ~online
         THEN IF ~CanGetProxy THEN Exc("FileNotFoundError", site)
              ELSE Exc("ConnectionError", site)
         ELSE Ok

\* cls.exc after a probe: ensure_config() stores the OSError it met,
\* MVR.is_connected() (called by MVR.get_state) the ConnectionError of a
\* silent host.
ProbeExc(raised, site) ==
    IF raised.type = "FileNotFoundError" THEN Exc("OSError", site)
    ELSE IF kind = "VideoMVR" /\ ~online THEN Exc("ConnectionError", "is_connected")
    ELSE Ok

\* get_proxy().read() empties the connector's buffer
BufferAfterRead == IF kind = "ImageMVR" /\ CanGetProxy THEN "none" ELSE buffer

\* cls.data_files is None until initialize() or a finalize() makes it a list
None == [some |-> FALSE, val |-> <<>>]
Some(v) == [some |-> TRUE, val |-> v]

\* ------------------------------------------------------------ operations
\* The effect of one call: what it raised, cls.latest_start, the commands
\* sent, whether cls.proxy is memoized, and the value stored in cls.exc
\* (Ok: cls.exc untouched).
Eff(res, ls, snt, px, ex) ==
    [res |-> res, ls |-> ls, sent |-> snt, proxy |-> px, exc |-> ex]

\* get_proxy().<command>(): the command goes out unless the proxy cannot be
\* built or, for a zro proxy, the host does not answer.
SendRaises(site) ==
    IF ~CanGetProxy THEN Exc("FileNotFoundError", site)
    ELSE IF kind \in StateKinds /\ ~online THEN Exc("ZroError", site)
    ELSE Ok

CamstimSyncShared_start ==
    LET probe == is_ready_to_start_raises("start")
    IN IF is_started_raises("start") # Ok
       THEN Eff(is_started_raises("start"), latest_start, <<>>, CanGetProxy,
                ProbeExc(is_started_raises("start"), "start"))
       ELSE IF is_started
       THEN Eff(Ok, latest_start, <<>>, TRUE, ProbeExc(Ok, "start"))
       ELSE IF probe # Ok
       THEN Eff(probe, latest_start, <<>>, CanGetProxy, ProbeExc(probe, "start"))
       ELSE IF ~is_ready_to_start
       THEN Eff(Exc("AssertionError", "start"), latest_start, <<>>, TRUE,
                ProbeExc(Ok, "start"))
       ELSE Eff(Ok, now, <<"start">>, TRUE, ProbeExc(Ok, "start"))

\* ScriptCamstim.start, SessionCamstim.start and VideoMVR.start: set
\* latest_start, then send the command
Unguarded_start ==
    LET send == SendRaises("start")
    IN IF send # Ok
       THEN Eff(send, now, <<>>, CanGetProxy,
                IF send.type = "FileNotFoundError" THEN Exc("OSError", "start") ELSE Ok)
       ELSE Eff(Ok, now, <<"start">>, TRUE, Ok)

\* ImageMVR.start: the readiness assertion only, then latest_start and the
\* snapshot command
ImageMVR_start ==
    LET probe == is_ready_to_start_raises("start")
    IN IF probe # Ok
       THEN Eff(probe, latest_start, <<>>, CanGetProxy,
                ProbeExc(probe, "start"))
       ELSE IF ~is_ready_to_start
       THEN Eff(Exc("AssertionError", "start"), latest_start, <<>>, TRUE, Ok)
       ELSE Eff(Ok, now, <<"start">>, TRUE, Ok)

start ==
    IF kind \in SharedStartKinds THEN CamstimSyncShared_start
    ELSE IF kind = "ImageMVR" THEN ImageMVR_start
    ELSE Unguarded_start

\* CamstimSyncShared.stop, VideoMVR.stop; ImageMVR.stop is `pass`
stop ==
    LET send == SendRaises("stop")
    IN IF kind = "ImageMVR"
       THEN Eff(Ok, latest_start, <<>>, proxy, Ok)
       ELSE IF send # Ok
       THEN Eff(send, latest_start, <<>>, CanGetProxy,
                IF send.type = "FileNotFoundError" THEN Exc("OSError", "stop") ELSE Ok)
       ELSE Eff(Ok, latest_start, <<"stop">>, TRUE, Ok)

Apply(e) ==
    /\ result' = e.res
    /\ latest_start' = e.ls
    /\ sent' = e.sent
    /\ Memoize(e.proxy)
    /\ exc' = IF e.exc = Ok THEN exc ELSE e.exc
    /\ new' = <<>>
    /\ ret' = <<>>
    /\ sampled' = <<>>

\* a statement of a with-body runs only while nothing has been raised in it
BodyRuns == scope = "in" => result = Ok

Start ==
    /\ pc = "idle"
    /\ BodyRuns
    /\ Apply(start)
    /\ buffer' = BufferAfterRead
    /\ op' = "start"
    /\ scopeStart' = (scopeStart \/ scope = "in")
    /\ UNCHANGED <<preVars, finVars, fileVars, queryVars, kind, envVars, rootOk, scope, reraise,
                   observed, scopeStop>>

Stop ==
    /\ pc = "idle"
    /\ BodyRuns
    /\ Apply(stop)
    /\ op' = "stop"
    /\ scopeStop' = (scopeStop \/ scope = "in")
    /\ UNCHANGED <<preVars, finVars, fileVars, queryVars, kind, envVars, buffer, rootOk, scope,
                   reraise, observed, scopeStart>>

\* ---------------------------------------------------------------- finalize
\* the glob patterns finalize() hands to get_latest_data(), in order
FinalizeGlobs(k) ==
    CASE k = "Sync" -> <<"*.h5">>
      [] k \in {"Camstim", "ScriptCamstim"} -> <<"*.pkl">>
      [] k = "VideoMVR" -> <<"*.mp4", "*.json">>
      [] k = "ImageMVR" -> <<"*">>

\* Proxy.get_latest_data with a glob: cls.latest_start is a class attribute,
\* so the window always starts there and ends at the current time
get_latest_data(glob, clock) ==
    get_files_created_between(files, glob, latest_start, NoEnd, clock)

RECURSIVE Discover(_, _)
Discover(globs, clock) ==
    IF globs = <<>> THEN <<>>
    ELSE get_latest_data(Head(globs), clock) \o Discover(Tail(globs), clock)

HasTimeout(k) == k \in MVRKinds

TimeoutSec(k) == IF k = "ImageMVR" THEN ImageMVRTimeoutSec ELSE VideoMVRTimeoutSec

\* `timedout()` of the MVR finalize loops: time.time() > t0 + 30 (or 10),
\* with `elapsed` the time since t0. The elapsed time is counted up to one
\* tick past the longest deadline, which stands for every later time.
timedout_at_deadline(elapsed) == elapsed >= Sec(TimeoutSec(kind))
timedout(elapsed) == elapsed > Sec(TimeoutSec(kind))
ElapsedAfter(d) == Min(waited + d, Sec(VideoMVRTimeoutSec) + 1)

\* artifact collection. Sync, Camstim and ImageMVR replace a None or empty
\* list by []; VideoMVR only tests hasattr(cls, "data_files"), which a None
\* satisfies, and None has no extend().
Collect(clock) ==
    LET found_now == Discover(FinalizeGlobs(kind), clock)
    IN IF kind = "VideoMVR" /\ ~data_files.some
       THEN [res |-> Exc("AttributeError", "finalize"), df |-> data_files, new |-> <<>>]
       ELSE [res |-> Ok, df |-> Some(data_files.val \o found_now), new |-> found_now]

\* the part of the loop condition beside `not timedout()`: the device is not
\* ready; for ImageMVR also: no file since the start yet, or a file ".bmp"
StillProcessing(clock) ==
    IF kind = "ImageMVR"
    THEN \/ ~is_ready_to_start
         \/ get_latest_data("*", clock) = <<>>
         \/ get_latest_data(".bmp", clock) # <<>>
    ELSE ~is_ready_to_start

\* a loop that never sleeps, and a finalize() that never gives up
KeepsWaiting_never(elapsed) == FALSE
GivesUp_never(elapsed) == FALSE

\* does the wait go on after a probe that found the device still processing
KeepsWaiting(elapsed) == ~(HasTimeout(kind) /\ timedout(elapsed))

\* does finalize() return without artifacts: `if timedout(): return`
GivesUp(elapsed) == HasTimeout(kind) /\ timedout(elapsed)

\* One evaluation of the loop condition at `clock`, `elapsed` after t0, and
\* what follows it when the loop ends: [pc, res, df, new, px, exc].
FinalizeCheck(clock, elapsed) ==
    LET raised == is_ready_to_start_raises("finalize")
        px == CanGetProxy
        ex == ProbeExc(raised, "finalize")
        c == Collect(clock)
    IN IF raised # Ok
       THEN [pc |-> "idle", res |-> raised, df |-> data_files, new |-> <<>>,
             px |-> px, exc |-> ex]
       ELSE IF StillProcessing(clock) /\ KeepsWaiting(elapsed)
       THEN [pc |-> "finalize", res |-> Ok, df |-> data_files, new |-> <<>>,
             px |-> px, exc |-> ex]
       ELSE IF GivesUp(elapsed)
       THEN [pc |-> "idle", res |-> Ok, df |-> data_files, new |-> <<>>,
             px |-> px, exc |-> ex]
       ELSE [pc |-> "idle", res |-> c.res, df |-> c.df, new |-> c.new,
             px |-> px, exc |-> ex]

ApplyCheck(c) ==
    /\ pc' = c.pc
    /\ result' = c.res
    /\ data_files' = c.df
    /\ new' = c.new
    /\ Memoize(c.px)
    /\ exc' = IF c.exc = Ok THEN exc ELSE c.exc
    /\ buffer' = BufferAfterRead

\* Sync, Camstim and VideoMVR finalize() begin with
\* `if cls.is_started(): cls.stop()`; ImageMVR.finalize() does not
StopsFirst(k) == k # "ImageMVR"

\* finalize() up to its first evaluation of the loop condition
FinalizeCall ==
    /\ pc = "idle"
    /\ scope = "out"
    /\ Len(data_files.val) < MaxFiles
    /\ op' = "finalize"
    /\ waited' = 0
    /\ LET raised == IF StopsFirst(kind) THEN is_started_raises("finalize") ELSE Ok
           stops == StopsFirst(kind) /\ is_started
           e == stop
       IN IF raised # Ok
          THEN /\ result' = raised
               /\ exc' = IF ProbeExc(raised, "finalize") = Ok THEN exc
                          ELSE ProbeExc(raised, "finalize")
               /\ sent' = <<>>
               /\ new' = <<>>
               /\ Memoize(CanGetProxy)
               /\ UNCHANGED <<pc, data_files, buffer>>
          ELSE IF stops /\ e.res # Ok
          THEN /\ result' = e.res
               /\ exc' = IF e.exc = Ok THEN exc ELSE e.exc
               /\ sent' = <<>>
               /\ new' = <<>>
               /\ Memoize(CanGetProxy)
               /\ UNCHANGED <<pc, data_files, buffer>>
          ELSE /\ sent' = IF stops THEN e.sent ELSE <<>>
               /\ ApplyCheck(FinalizeCheck(now, 0))
    /\ sampled' = <<>>
    /\ UNCHANGED <<preVars, ret, fileVars, queryVars, kind, envVars, rootOk, latest_start,
                   scopeVars>>

\* One turn of the loop: time.sleep(1) and the status probe, whose requests
\* wait for the device to answer, then the loop condition again. A turn takes
\* PollSec seconds or a tick longer.
PollTicks == {Sec(PollSec), Sec(PollSec) + 1}

FinalizePoll ==
    /\ pc = "finalize"
    /\ \E d \in PollTicks :
        /\ now' = ClockAfter(d)
        /\ waited' = ElapsedAfter(d)
        /\ ApplyCheck(FinalizeCheck(ClockAfter(d), ElapsedAfter(d)))
    /\ op' = "finalize"
    /\ sampled' = <<>>
    /\ UNCHANGED <<preVars, ret, files, queryVars, kind, envVars, rootOk, latest_start, sent,
                   scopeVars>>

\* ------------------------------------------------- utils.stop_on_error
ScopeEnter ==
    /\ scope = "out"
    /\ scope' = "in"
    /\ reraise' \in BOOLEAN
    /\ observed' = Ok
    /\ result' = Ok
    /\ sent' = <<>>
    /\ scopeStart' = FALSE
    /\ scopeStop' = FALSE
    /\ op' = "scope_enter"
    /\ UNCHANGED <<preVars, sampled, ret, finVars, new, fileVars, queryVars, kind, envVars, buffer, rootOk,
                   proxyVars, exc, latest_start>>

\* the body ran to its end: nothing is caught, the generator just returns
ScopeExitNormal ==
    /\ scope = "in"
    /\ result = Ok
    /\ scope' = "out"
    /\ observed' = Ok
    /\ sent' = <<>>
    /\ op' = "scope_exit"
    /\ UNCHANGED <<preVars, sampled, ret, finVars, new, fileVars, queryVars, kind, envVars, buffer, rootOk,
                   proxyVars, exc, latest_start, result, reraise, scopeStart, scopeStop>>

\* the handler's value of cls.exc: obj.exc = exc, then whatever stop() stores
HandlerExc(E, e) == IF e.exc = Ok THEN E ELSE e.exc

\* a handler that swallows what the body raised
Propagated_swallowed(E, rr) == Ok

\* what leaves the with statement: `if reraise: raise exc`
Propagated(E, rr) == IF rr THEN E ELSE Ok

\* the body raised E: obj.exc = exc; obj.stop() with its own exceptions
\* suppressed; then E is raised again if reraise
ScopeExitError ==
    /\ scope = "in"
    /\ result # Ok
    /\ LET E == result
           e == stop
       IN /\ exc' = HandlerExc(E, e)
          /\ sent' = e.sent
          /\ Memoize(e.proxy)
          /\ observed' = Propagated(E, reraise)
          /\ result' = Propagated(E, reraise)
    /\ scope' = "out"
    /\ scopeStop' = TRUE
    /\ op' = "scope_exit"
    /\ UNCHANGED <<preVars, sampled, ret, finVars, new, fileVars, queryVars, kind, envVars, buffer, rootOk,
                   latest_start, reraise, scopeStart>>

\* ------------------------------------------------------------ environment
\* op, sent, new and result describe the last call; a step of the
\* environment clears them, except for the exception pending in a with-body
\* and the commands of a finalize() that is still waiting.
EnvStep ==
    /\ op' = "env"
    /\ sent' = IF pc # "idle" THEN sent ELSE <<>>
    /\ new' = <<>>
    /\ result' = IF scope = "in" THEN result ELSE Ok
    /\ ret' = <<>>
    /\ sampled' = IF pc = "validate" THEN sampled ELSE <<>>

EnvDevice ==
    /\ kind \in StateKinds
    /\ dev' \in DeviceStates(kind) \ {dev}
    /\ EnvStep
    /\ UNCHANGED <<preVars, buffer, finVars, fileVars, queryVars, kind, cams, online, rootOk, proxyVars, exc,
                   latest_start, scopeVars>>

EnvOnline ==
    /\ online' = ~online
    /\ EnvStep
    /\ UNCHANGED <<preVars, buffer, finVars, fileVars, queryVars, kind, dev, cams, rootOk, proxyVars, exc,
                   latest_start, scopeVars>>

\* MVR broadcasts the outcome of a snapshot
EnvBroadcast ==
    /\ kind = "ImageMVR"
    /\ buffer' \in Broadcasts \ {buffer}
    /\ EnvStep
    /\ UNCHANGED <<preVars, finVars, fileVars, queryVars, kind, envVars, rootOk, proxyVars, exc,
                   latest_start, scopeVars>>

\* the clock moves on by one tick
Tick ==
    /\ now < LateTime
    /\ now' = now + 1
    /\ EnvStep
    /\ UNCHANGED <<preVars, buffer, finVars, files, queryVars, kind, envVars, rootOk, proxyVars, exc,
                   latest_start, scopeVars>>

\* the device writes a file into its data root, of the suffix its finalize()
\* looks for (other suffixes are the locator specification's matter)
KindExts(k) ==
    CASE k = "Sync" -> {"h5"}
      [] k \in {"Camstim", "ScriptCamstim"} -> {"pkl"}
      [] k = "VideoMVR" -> {"mp4"}
      [] k = "ImageMVR" -> {"png"}

EnvCreateFile ==
    /\ Len(files) < MaxFiles
    /\ now <= MaxCtime
    /\ \E x \in KindExts(kind) : files' = Append(files, [ctime |-> now, ext |-> x])
    /\ EnvStep
    /\ UNCHANGED <<preVars, buffer, finVars, now, queryVars, kind, envVars, rootOk, proxyVars, exc,
                   latest_start, scopeVars>>

\* camera conditions of the lifecycle runs: all ready, all recording, one
\* recording beside a closed one, one not streaming, all closed
Cam(o, s, r) == [is_open |-> o, is_streaming |-> s, is_recording |-> r]
CamScenarios ==
    {[x \in Cameras |-> Cam(TRUE, TRUE, FALSE)],
     [x \in Cameras |-> Cam(TRUE, TRUE, TRUE)],
     [x \in Cameras |-> IF x = "cam1" THEN Cam(TRUE, TRUE, TRUE) ELSE Cam(FALSE, FALSE, FALSE)],
     [x \in Cameras |-> IF x = "cam1" THEN Cam(TRUE, FALSE, FALSE) ELSE Cam(TRUE, TRUE, FALSE)],
     [x \in Cameras |-> Cam(FALSE, FALSE, FALSE)]}

EnvCamScenario ==
    /\ kind \in MVRKinds
    /\ cams' \in CamScenarios \ {cams}
    /\ EnvStep
    /\ UNCHANGED <<preVars, buffer, finVars, fileVars, queryVars, kind, dev, online, rootOk, proxyVars,
                   exc, latest_start, scopeVars>>

\* ------------------------------------------------- disk-space preflight
\* ensure_config: `config.get("min_rec_hr", 3.0)`, in tenths of an hour
DefaultMinRecHr == 30
\* ensure_config: `config.get("gb_per_hr", 2.0)`, in tenths of a GB per hour
DefaultGbPerHr == 20

\* the base class, which has no start(), beside the device classes
BaseKind == "Proxy"
\* the log recorder, which is no proxy class
LogKind == "JsonRecorder"
CamstimKinds == {"Camstim", "ScriptCamstim"}

\* isinstance(cls, Startable): the class has the members of the protocol
Startable(k) == k # BaseKind

\* round(x, 1) of a value given in hundredths, in tenths: to the nearest
\* tenth, a tie to the even one; the mutant drops the second decimal
round_1_floor(h) == h \div 10
round_1(h) ==
    LET q == h \div 10
        r == h % 10
    IN IF r < 5 THEN q
       ELSE IF r > 5 THEN q + 1
       ELSE IF q % 2 = 0 THEN q ELSE q + 1

\* What ensure_config() raises. A data root that cannot be accessed:
\* FileNotFoundError, with the OSError kept in cls.exc. No data root at all:
\* Proxy.ensure_config and Sync.ensure_config call cls.data_root.mkdir() on
\* None, Camstim.ensure_config tests `cls.data_root is not None` first.
ensure_config ==
    IF configured
    THEN IF rootOk THEN Ok ELSE Exc("FileNotFoundError", "ensure_config")
    ELSE IF kind \in CamstimKinds THEN Ok
         ELSE Exc("AttributeError", "ensure_config")

\* the value a call hands back, or the exception it raises, and what it
\* stores in cls.exc (Ok: cls.exc untouched)
Returns(v) == [res |-> Ok, val |-> <<v>>, exc |-> Ok]
Raises(e, stored) == [res |-> e, val |-> <<>>, exc |-> stored]

\* the value get_required_disk_gb() computes, in tenths of a GB
required_disk_gb(k, hr, gb) == IF ~Startable(k) THEN 0 ELSE round_1(hr * gb)

get_required_disk_gb ==
    IF ensure_config # Ok
    THEN Raises(ensure_config, ProbeExc(ensure_config, "ensure_config"))
    ELSE Returns(required_disk_gb(kind, min_rec_hr, gb_per_hr))

\* utils.free_gb(cls.data_root); `accessible`: the root can still be
\* accessed when shutil.disk_usage() runs
free_gb(accessible) ==
    IF ~configured THEN Raises(Exc("TypeError", "free_gb"), Ok)
    ELSE IF ~accessible THEN Raises(Exc("FileNotFoundError", "free_gb"), Ok)
    ELSE Returns(round_1(free))

is_disk_space_ok(accessible) ==
    LET required == get_required_disk_gb
        got == free_gb(accessible)
    IN IF required.res # Ok THEN required
       ELSE IF required.val = <<0>> THEN Returns(TRUE)
       ELSE IF got.res.type = "FileNotFoundError"
       THEN [res |-> Ok, val |-> <<FALSE>>, exc |-> got.res]
       ELSE IF got.res # Ok THEN got
       ELSE Returns(got.val[1] > required.val[1])

\* a call that only answers: its outcome, and nothing sent to the device
Answer(name, a) ==
    /\ op' = name
    /\ result' = a.res
    /\ ret' = a.val
    /\ exc' = IF a.exc = Ok THEN exc ELSE a.exc
    /\ sent' = <<>>
    /\ new' = <<>>

RequiredDiskGb ==
    /\ kind # LogKind
    /\ Answer("get_required_disk_gb", get_required_disk_gb)
    /\ UNCHANGED <<preVars, sampled, finVars, fileVars, queryVars, kind, envVars, buffer, rootOk,
                   proxyVars, latest_start, scopeVars>>

\* is_disk_space_ok(); the data root may be lost while the call runs
DiskSpaceOk ==
    /\ kind # LogKind
    /\ \E lost \in BOOLEAN :
        Answer("is_disk_space_ok", is_disk_space_ok(rootOk /\ ~lost))
    /\ UNCHANGED <<preVars, sampled, finVars, fileVars, queryVars, kind, envVars, buffer, rootOk,
                   proxyVars, latest_start, scopeVars>>

\* get_proxy(): the memoized proxy, or else ensure_config() and a new one
get_proxy_raises == IF proxy THEN Ok ELSE ensure_config

\* Proxy.is_connected: the ping, then the uptime and get_state requests
is_connected ==
    IF ~online
    THEN [res |-> Ok, val |-> <<FALSE>>, exc |-> Exc("ConnectionError", "is_connected")]
    ELSE IF get_proxy_raises # Ok
    THEN Raises(get_proxy_raises, ProbeExc(get_proxy_raises, "is_connected"))
    ELSE Returns(TRUE)

\* Proxy.test: is_connected(), get_required_disk_gb(), is_disk_space_ok()
Proxy_test(accessible) ==
    LET conn == is_connected
        gb == get_required_disk_gb
        ok == is_disk_space_ok(accessible)
    IN IF conn.res # Ok THEN conn
       ELSE IF conn.val = <<FALSE>>
       THEN Raises(Exc("TestError", "is_connected"), conn.exc)
       ELSE IF gb.res # Ok THEN gb
       ELSE IF ok.res # Ok THEN ok
       ELSE IF ok.val = <<FALSE>>
       THEN Raises(Exc("TestError", "is_disk_space_ok"), ok.exc)
       ELSE [res |-> Ok, val |-> <<>>, exc |-> Ok]

\* ---- JsonRecorder: a log file holds nothing, a JSON object or other bytes
LogKeys == {"a", "b"}
EmptyLog == [bytes |-> "empty", data |-> {}]
JsonLog(d) == [bytes |-> "json", data |-> d]

\* JsonRecorder.initialize on a class that has no `initialization` yet:
\* mkdir and touch of a new log, cls.all_files = [log], then test()
JsonRecorder_initialize ==
    IF ~rootOk THEN [res |-> Exc("OSError", "initialize"), logs |-> all_files]
    ELSE [res |-> Ok, logs |-> <<EmptyLog>>]

\* get_current_log(): initialize() first if the class never was
get_current_log == IF all_files = <<>> THEN JsonRecorder_initialize
                   ELSE [res |-> Ok, logs |-> all_files]

\* JsonRecorder.test: `cls.get_current_log().open("w")`, which empties the
\* file; an OSError becomes TestError
JsonRecorder_test ==
    LET cur == get_current_log
    IN IF cur.res # Ok THEN cur
       ELSE IF ~rootOk THEN [res |-> Exc("TestError", "test"), logs |-> cur.logs]
       ELSE [res |-> Ok, logs |-> [cur.logs EXCEPT ![Len(cur.logs)] = EmptyLog]]

\* the objects a log holds or a write() is given: sets of <<key, value>>
\* with one value per key
LogValues == {"x", "y"}
Dicts == {d \in SUBSET (LogKeys \X LogValues) :
            \A p \in d, q \in d : p[1] = q[1] => p = q}

\* a log whose bytes are not JSON
CorruptLog == [bytes |-> "other", data |-> {}]

\* dict.update(value) that keeps the old value of a key it is given again
Update_keep_old(d, v) == d \cup {p \in v : \A q \in d : q[1] # p[1]}

\* dict.update(value): the keys of value take value's values, the other
\* keys stay
Update(d, v) == {p \in d : \A q \in v : q[1] # p[1]} \cup v

\* JsonRecorder.read on the current log: json.loads of its bytes, which
\* cannot be read (OSError) while the log's directory is out of reach; a
\* JSONDecodeError is raised on unless the file is empty, which reads as {}
JsonRecorder_read ==
    LET cur == get_current_log
        log == cur.logs[Len(cur.logs)]
    IN IF cur.res # Ok THEN [res |-> cur.res, val |-> <<>>, logs |-> cur.logs]
       ELSE IF ~rootOk
       THEN [res |-> Exc("OSError", "read"), val |-> <<>>, logs |-> cur.logs]
       ELSE IF log.bytes = "other"
       THEN [res |-> Exc("JSONDecodeError", "read"), val |-> <<>>, logs |-> cur.logs]
       ELSE [res |-> Ok, val |-> <<log.data>>, logs |-> cur.logs]

\* JsonRecorder.write(value): read(), update, write back; on a
\* JSONDecodeError start from {} in a new file `.new.json`, appended to
\* cls.all_files
JsonRecorder_write(value) ==
    LET r == JsonRecorder_read
        n == Len(r.logs)
    IN IF r.res.type = "JSONDecodeError"
       THEN [res |-> Ok, logs |-> Append(r.logs, JsonLog(Update({}, value)))]
       ELSE IF r.res # Ok THEN [res |-> r.res, logs |-> r.logs]
       ELSE [res |-> Ok,
             logs |-> [r.logs EXCEPT ![n] = JsonLog(Update(r.val[1], value))]]

JsonWrite ==
    /\ kind = LogKind
    /\ \E value \in Dicts :
        /\ result' = JsonRecorder_write(value).res
        /\ all_files' = JsonRecorder_write(value).logs
        /\ sampled' = <<value>>
    /\ op' = "write"
    /\ ret' = <<>>
    /\ sent' = <<>>
    /\ new' = <<>>
    /\ UNCHANGED <<diskVars, initVars, histVars, tearVars, finVars, fileVars, queryVars, kind,
                   envVars, buffer, rootOk, proxyVars, exc, latest_start, scopeVars>>

JsonRead ==
    /\ kind = LogKind
    /\ result' = JsonRecorder_read.res
    /\ ret' = JsonRecorder_read.val
    /\ all_files' = JsonRecorder_read.logs
    /\ op' = "read"
    /\ sampled' = <<>>
    /\ sent' = <<>>
    /\ new' = <<>>
    /\ UNCHANGED <<diskVars, initVars, histVars, tearVars, finVars, fileVars, queryVars, kind,
                   envVars, buffer, rootOk, proxyVars, exc, latest_start, scopeVars>>

\* something else writes bytes that are not JSON into the current log
EnvCorrupt ==
    /\ kind = LogKind
    /\ all_files # <<>>
    /\ Len(all_files) < MaxLogs
    /\ all_files[Len(all_files)] # CorruptLog
    /\ all_files' = [all_files EXCEPT ![Len(all_files)] = CorruptLog]
    /\ EnvStep
    /\ UNCHANGED <<diskVars, initVars, histVars, tearVars, finVars, fileVars, queryVars, kind,
                   envVars, buffer, rootOk, proxyVars, exc, latest_start, scopeVars>>

\* test() of the class the lifecycle runs on
Test ==
    /\ IF kind = LogKind
       THEN /\ Answer("test", [res |-> JsonRecorder_test.res, val |-> <<>>, exc |-> Ok])
            /\ all_files' = JsonRecorder_test.logs
            /\ UNCHANGED proxyVars
       ELSE /\ \E lost \in BOOLEAN : Answer("test", Proxy_test(rootOk /\ ~lost))
            /\ Memoize(proxy \/ (online /\ ensure_config = Ok))
            /\ all_files' = all_files
    /\ tested' = IF result' = Ok THEN "passed" ELSE "failed"
    /\ UNCHANGED <<diskVars, sampled, initVars, tearVars, steps, finVars, fileVars, queryVars, kind, envVars, buffer,
                   rootOk, latest_start, scopeVars>>

\* ------------------------------------------------------------ initialize
\* Proxy.initialize. The proxy is deleted and made again, which runs
\* ensure_config(). A class that is not ready to start runs finalize(),
\* which stops a started device and returns only once the device reports
\* ready, unless the host stops answering meanwhile (`lost`); when
\* initialize() gets that far, the device is ready. test() is not called.
Proxy_initialize(lost) ==
    IF ~parent_proxy /\ ensure_config # Ok
       THEN [res |-> ensure_config, proxy |-> FALSE, sent |-> <<>>, dev |-> dev,
             online |-> online, df |-> data_files,
             exc |-> ProbeExc(ensure_config, "initialize")]
       ELSE IF ~online
       THEN [res |-> Exc("ZroError", "initialize"), proxy |-> TRUE, sent |-> <<>>,
             dev |-> dev, online |-> online, df |-> data_files, exc |-> Ok]
       ELSE IF is_ready_to_start
       THEN [res |-> Ok, proxy |-> TRUE, sent |-> <<>>, dev |-> dev,
             online |-> online, df |-> Some(<<>>), exc |-> Ok]
       ELSE IF lost
       THEN [res |-> Exc("ZroError", "finalize"), proxy |-> TRUE,
             sent |-> IF is_started THEN <<"stop">> ELSE <<>>, dev |-> dev,
             online |-> FALSE, df |-> data_files, exc |-> Ok]
       ELSE [res |-> Ok, proxy |-> TRUE,
             sent |-> IF is_started THEN <<"stop">> ELSE <<>>,
             dev |-> <<"READY", "">>, online |-> online, df |-> Some(<<>>),
             exc |-> Ok]

\* `del cls.proxy; cls.proxy = cls.get_proxy()`: the del removes the
\* class's own attribute only; where the parent class holds a handle,
\* get_proxy() finds that one and it becomes the class's own; otherwise a
\* new handle is created, unless ensure_config() raises (`px` false)
Reacquire(px) ==
    /\ proxy' = px
    /\ own' = IF parent_proxy THEN ParentHandle
              ELSE IF px THEN created + 1 ELSE NoHandle
    /\ created' = IF ~parent_proxy /\ px THEN created + 1 ELSE created

Initialize ==
    /\ kind \in ZroKinds
    /\ pc = "idle"
    /\ teardowns < MaxTeardowns
    /\ teardowns' = teardowns + 1
    /\ UNCHANGED parent_proxy
    /\ \E lost \in BOOLEAN :
        LET i == Proxy_initialize(lost)
        IN /\ result' = i.res
           /\ Reacquire(i.proxy)
           /\ sent' = i.sent
           /\ dev' = i.dev
           /\ online' = i.online
           /\ data_files' = i.df
           /\ exc' = IF i.exc = Ok THEN exc ELSE i.exc
           /\ initialization' = IF i.res = Ok THEN now ELSE initialization
    /\ op' = "initialize"
    /\ tested' = "never"
    /\ new' = <<>>
    /\ ret' = <<>>
    /\ UNCHANGED <<diskVars, sampled, at_call, all_files, steps, pc, waited, fileVars, queryVars, kind, cams,
                   buffer, rootOk, latest_start, scopeVars>>

\* the data root becomes accessible or inaccessible
EnvRoot ==
    /\ rootOk' = ~rootOk
    /\ EnvStep
    /\ UNCHANGED <<preVars, buffer, finVars, fileVars, queryVars, kind, envVars, proxyVars, exc,
                   latest_start, scopeVars>>

\* ---------------------------------------------------------------- verify
\* what stat().st_size of a data file may read
Sizes == 0..MaxSize

\* utils.is_file_growing: the size, a sleep of 2 * log10(size) seconds for a
\* .sync file (0.5 * log10(size) for others), the size again. math.log10(0)
\* raises ValueError.
is_file_growing(size_0, size_1) ==
    IF size_0 = 0 THEN Raises(Exc("ValueError", "is_file_growing"), Ok)
    ELSE Returns(size_1 # size_0)

\* get_latest_data() without a glob: f"*{cls.raw_suffix}", or "*" for a
\* class without raw_suffix
RawGlob(k) ==
    CASE k = "Sync" -> "*.sync"
      [] k = "VideoMVR" -> "*.mp4"
      [] OTHER -> "*"

\* CamstimSyncShared.verify, which Camstim and ScriptCamstim inherit
CamstimSyncShared_verify ==
    LET probe == is_started_raises("verify")
    IN IF probe # Ok
       THEN Eff(probe, latest_start, <<>>, CanGetProxy, ProbeExc(probe, "verify"))
       ELSE IF ~is_started
       THEN Eff(Exc("AssertionError", "verify"), latest_start, <<>>, TRUE,
                ProbeExc(Ok, "verify"))
       ELSE Eff(Ok, latest_start, <<>>, TRUE, ProbeExc(Ok, "verify"))

\* Sync.verify: super().verify(), then `if cls.data_root and not
\* utils.is_file_growing(cls.get_latest_data()[-1])`; get_latest_data()
\* runs ensure_config() and [-1] of an empty list raises IndexError
Sync_verify(size_0, size_1) ==
    LET base == CamstimSyncShared_verify
        latest == get_latest_data(RawGlob(kind), now)
        growing == is_file_growing(size_0, size_1)
    IN IF base.res # Ok \/ ~configured THEN base
       ELSE IF ensure_config # Ok
       THEN Eff(ensure_config, latest_start, <<>>, TRUE,
                ProbeExc(ensure_config, "verify"))
       ELSE IF latest = <<>>
       THEN Eff(Exc("IndexError", "verify"), latest_start, <<>>, TRUE, Ok)
       ELSE IF growing.res # Ok
       THEN Eff(growing.res, latest_start, <<>>, TRUE, Ok)
       ELSE IF growing.val = <<FALSE>>
       THEN Eff(Exc("AssertionError", "verify"), latest_start, <<>>, TRUE, Ok)
       ELSE base

\* MVR.get_cameras_recording: the cameras whose status says is_recording
get_cameras_recording == {x \in Cameras : cams[x].is_recording}

\* VideoMVR.verify: the started test, then `if not (files :=
\* cls.get_latest_data()) or len(files) < len(cls.get_cameras_recording())`;
\* a class without data root gets None for files
VideoMVR_verify ==
    LET base == CamstimSyncShared_verify
        latest == get_latest_data(RawGlob(kind), now)
    IN IF base.res # Ok THEN base
       ELSE IF ensure_config # Ok
       THEN Eff(ensure_config, latest_start, <<>>, TRUE,
                ProbeExc(ensure_config, "verify"))
       ELSE IF ~configured \/ latest = <<>>
               \/ Len(latest) < Cardinality(get_cameras_recording)
       THEN Eff(Exc("AssertionError", "verify"), latest_start, <<>>, TRUE,
                ProbeExc(Ok, "verify"))
       ELSE base

\* ImageMVR.verify is `pass`
verify(size_0, size_1) ==
    CASE kind = "Sync" -> Sync_verify(size_0, size_1)
      [] kind \in {"Camstim", "ScriptCamstim"} -> CamstimSyncShared_verify
      [] kind = "VideoMVR" -> VideoMVR_verify
      [] kind = "ImageMVR" -> Eff(Ok, latest_start, <<>>, proxy, Ok)

\* does verify() get as far as reading the latest file's size
VerifySamples ==
    /\ kind = "Sync"
    /\ CamstimSyncShared_verify.res = Ok
    /\ configured
    /\ ensure_config = Ok
    /\ get_latest_data(RawGlob(kind), now) # <<>>

Verify ==
    /\ pc = "idle"
    /\ BodyRuns
    /\ \E size_0, size_1 \in Sizes :
        LET e == verify(size_0, size_1)
        IN /\ result' = e.res
           /\ Memoize(e.proxy)
           /\ exc' = IF e.exc = Ok THEN exc ELSE e.exc
           /\ sampled' = IF VerifySamples THEN <<size_0, size_1>> ELSE <<>>
           /\ ~VerifySamples => (size_0 = 0 /\ size_1 = 0)
    /\ op' = "verify"
    /\ sent' = <<>>
    /\ new' = <<>>
    /\ ret' = <<>>
    /\ UNCHANGED <<buffer, latest_start, diskVars, initVars, all_files, histVars, tearVars, finVars, fileVars,
                   queryVars, kind, envVars, rootOk, scopeVars>>

\* the device writes a file of its raw suffix, the one verify() looks for
EnvCreateRaw ==
    /\ kind \in {"Sync", "VideoMVR"}
    /\ Len(files) < MaxFiles
    /\ now <= MaxCtime
    /\ files' = Append(files, [ctime |-> now,
                               ext |-> IF kind = "Sync" THEN "sync" ELSE "mp4"])
    /\ EnvStep
    /\ UNCHANGED <<preVars, buffer, finVars, now, queryVars, kind, envVars, rootOk,
                   proxyVars, exc, latest_start, scopeVars>>

\* -------------------------------------------------------------- validate
\* Sync.validate(data). Without an argument the latest *.h5 file since the
\* latest start is taken, if there is one; `data` is a file index, 0 for
\* None.
NoData == 0

\* a min_validation that expects the raw suffix
min_validation_raw(data, size) ==
    IF data = NoData THEN Exc("AttributeError", "min_validation")
    ELSE IF size = 0 THEN Exc("AssertionError", "min_validation")
    ELSE IF files[data].ext # "sync" THEN Exc("FileNotFoundError", "min_validation")
    ELSE Ok

\* Sync.min_validation, run when h5py cannot be imported: None has no
\* stat(); an empty file is an AssertionError, another suffix than .h5 a
\* FileNotFoundError
min_validation(data, size) ==
    IF data = NoData THEN Exc("AttributeError", "min_validation")
    ELSE IF size = 0 THEN Exc("AssertionError", "min_validation")
    ELSE IF files[data].ext # "h5" THEN Exc("FileNotFoundError", "min_validation")
    ELSE Ok

\* Sync.full_validation, run when h5py is there: cls.get_config()
\* ["line_labels"], a request to the device, and nothing else
full_validation(data) ==
    IF ~CanGetProxy THEN Exc("FileNotFoundError", "full_validation")
    ELSE IF ~online THEN Exc("ZroError", "full_validation")
    ELSE Ok

\* the try/except ImportError/else at the end of validate()
Validation(data, size, h5py) ==
    IF h5py THEN full_validation(data) ELSE min_validation(data, size)

\* the file validate() settles on: the argument, or files[-1] of
\* get_latest_data("*.h5"), or None
ChosenData(arg) ==
    LET latest == get_latest_data("*.h5", now)
    IN IF arg # NoData THEN arg
       ELSE IF ~configured \/ latest = <<>> THEN NoData
       ELSE latest[Len(latest)]

\* what the first part of validate() comes to: "raise", "return" (the
\* warning for a started device), "finalize" (a device neither started nor
\* ready) or "validate" (straight on to the validation)
ValidateHead(arg) ==
    IF arg # NoData THEN [to |-> "validate", res |-> Ok]
    ELSE IF ensure_config # Ok THEN [to |-> "raise", res |-> ensure_config]
    ELSE IF ChosenData(arg) = NoData THEN [to |-> "validate", res |-> Ok]
    ELSE IF is_ready_to_start_raises("validate") # Ok
    THEN [to |-> "raise", res |-> is_ready_to_start_raises("validate")]
    ELSE IF is_started THEN [to |-> "return", res |-> Ok]
    ELSE IF ~is_ready_to_start THEN [to |-> "finalize", res |-> Ok]
    ELSE [to |-> "validate", res |-> Ok]

\* validate() up to its end, or up to the first turn of the wait of the
\* finalize() it calls for a device that is neither started nor ready (which
\* is still not ready at finalize()'s first look, made in the same instant)
Validate ==
    /\ kind = "Sync"
    /\ pc = "idle"
    /\ \E arg \in {NoData} \cup DOMAIN files :
        LET h == ValidateHead(arg)
            data == ChosenData(arg)
        IN /\ h.to = "finalize" => Len(data_files.val) < MaxFiles
           /\ pc' = IF h.to = "finalize" THEN "validate" ELSE "idle"
           /\ exc' = IF ProbeExc(h.res, "validate") = Ok THEN exc
                      ELSE ProbeExc(h.res, "validate")
           /\ IF h.to # "validate"
              THEN /\ result' = h.res
                   /\ sampled' = <<data, 0>>
              ELSE \E size \in IF data = NoData THEN {0} ELSE Sizes, h5py \in BOOLEAN :
                     /\ result' = Validation(data, size, h5py)
                     /\ sampled' = <<data, size>>
    /\ Memoize(CanGetProxy)
    /\ waited' = 0
    /\ op' = "validate"
    /\ sent' = <<>>
    /\ new' = <<>>
    /\ ret' = <<>>
    /\ UNCHANGED <<diskVars, initVars, all_files, histVars, tearVars, data_files,
                   fileVars, queryVars, kind, envVars, buffer, rootOk, latest_start,
                   scopeVars>>

\* one turn of the loop of the finalize() that validate() called, and the
\* validation once finalize() has returned
ValidatePoll ==
    /\ pc = "validate"
    /\ \E d \in PollTicks :
        LET c == FinalizeCheck(ClockAfter(d), ElapsedAfter(d))
        IN /\ now' = ClockAfter(d)
           /\ waited' = ElapsedAfter(d)
           /\ pc' = IF c.pc = "finalize" THEN "validate" ELSE "idle"
           /\ IF c.pc = "finalize" \/ c.res # Ok
              THEN /\ result' = c.res
                   /\ sampled' = sampled
              ELSE \E size \in Sizes, h5py \in BOOLEAN :
                     /\ result' = Validation(sampled[1], size, h5py)
                     /\ sampled' = <<sampled[1], size>>
           /\ data_files' = c.df
           /\ new' = c.new
           /\ Memoize(c.px)
           /\ exc' = IF c.exc = Ok THEN exc ELSE c.exc
    /\ op' = "validate"
    /\ UNCHANGED <<diskVars, initVars, all_files, histVars, tearVars, ret, files,
                   queryVars, kind, envVars, buffer, rootOk, latest_start, sent,
                   scopeVars>>

\* ------------------------------------------- initialize(), step by step
\* Proxy.initialize and MVR.initialize with the wait of the finalize() they
\* call taken one loop turn at a time: pc is "initialize" while that
\* finalize() sleeps in its loop, and "reprobe" once it has returned and
\* before initialize() evaluates `if not cls.is_ready_to_start()`.

\* no initialize() is running
NotCalled == [df |-> None, initialization |-> 0]

\* `if cls.data_root: cls.data_files = []`
ResetDataFiles == IF configured THEN Some(<<>>) ELSE data_files

\* the readiness test of initialize(): MVR.initialize has emptied the
\* connector's buffer just before (`_ = cls.get_proxy().read()`), so
\* ImageMVR.is_started finds nothing in it
ReadyAfterRead ==
    IF kind = "ImageMVR"
    THEN \A x \in Cameras :
            cams[x].is_open /\ cams[x].is_streaming /\ ~cams[x].is_recording
    ELSE is_ready_to_start

\* the stop commands of a busy device's initialize(): MVR.initialize stops a
\* started device itself, and the finalize() it then calls finds the device
\* still started and stops it again; Proxy.initialize leaves it to finalize()
StopsOfInitialize ==
    IF kind = "ImageMVR" \/ ~is_started THEN <<>>
    ELSE IF kind = "VideoMVR" THEN <<"stop", "stop">>
    ELSE <<"stop">>

Ini(p, res, px, snt, df, ex, init) ==
    [pc |-> p, res |-> res, proxy |-> px, sent |-> snt, df |-> df, exc |-> ex,
     initialization |-> init]

\* initialize() up to the first turn of the wait in finalize(). The proxy
\* is made again, which runs ensure_config(); MVR.initialize then runs
\* test(), whose is_connected() fails for a silent host. A device that is
\* not ready is still not ready at finalize()'s first look, made in the same
\* instant, so the call goes to sleep in the loop.
InitializeEnter ==
    LET cfg == IF parent_proxy THEN Ok ELSE ensure_config
        t == Proxy_test(rootOk)
    IN IF cfg # Ok
       THEN Ini("idle", cfg, FALSE, <<>>, data_files, ProbeExc(cfg, "initialize"),
                initialization)
       ELSE IF kind \in MVRKinds /\ t.res # Ok
       THEN Ini("idle", t.res, TRUE, <<>>, data_files, t.exc, initialization)
       ELSE IF kind \in ZroKinds /\ ~online
       THEN Ini("idle", Exc("ZroError", "initialize"), TRUE, <<>>, data_files, Ok,
                initialization)
       ELSE IF ReadyAfterRead
       THEN Ini("idle", Ok, TRUE, <<>>, ResetDataFiles, Ok, now)
       ELSE Ini("initialize", Ok, TRUE, StopsOfInitialize, data_files, Ok,
                initialization)

InitializeCall ==
    /\ pc = "idle"
    /\ teardowns < MaxTeardowns
    /\ teardowns' = teardowns + 1
    /\ LET i == InitializeEnter
       IN /\ pc' = i.pc
          /\ result' = i.res
          /\ Reacquire(i.proxy)
          /\ sent' = i.sent
          /\ data_files' = i.df
          /\ exc' = IF i.exc = Ok THEN exc ELSE i.exc
          /\ initialization' = i.initialization
          /\ at_call' = IF i.pc = "idle" THEN NotCalled
                        ELSE [df |-> data_files, initialization |-> initialization]
          /\ tested' = IF kind \in ZroKinds \/ i.res.site = "initialize" THEN "never"
                       ELSE IF i.res.type = "TestError" THEN "failed" ELSE "passed"
    /\ buffer' = IF kind = "ImageMVR" /\ proxy' THEN "none" ELSE buffer
    /\ waited' = 0
    /\ op' = "initialize"
    /\ new' = <<>>
    /\ ret' = <<>>
    /\ UNCHANGED <<diskVars, sampled, all_files, steps, parent_proxy, fileVars, queryVars, kind,
                   envVars, rootOk, latest_start, scopeVars>>

\* one turn of the loop of the finalize() that initialize() called: the
\* wait goes on, or finalize() raises, which ends initialize() too, or
\* finalize() returns, with or without having collected
InitializePoll ==
    /\ pc = "initialize"
    /\ \E d \in PollTicks :
        LET c == FinalizeCheck(ClockAfter(d), ElapsedAfter(d))
        IN /\ now' = ClockAfter(d)
           /\ waited' = ElapsedAfter(d)
           /\ pc' = IF c.pc = "finalize" THEN "initialize"
                    ELSE IF c.res # Ok THEN "idle" ELSE "reprobe"
           /\ result' = c.res
           /\ data_files' = c.df
           /\ new' = c.new
           /\ Memoize(c.px)
           /\ exc' = IF c.exc = Ok THEN exc ELSE c.exc
           /\ at_call' = IF c.pc = "idle" /\ c.res # Ok THEN NotCalled ELSE at_call
    /\ buffer' = BufferAfterRead
    /\ op' = "initialize"
    /\ UNCHANGED <<diskVars, sampled, initialization, all_files, histVars, tearVars, ret, files,
                   queryVars, kind, envVars, rootOk, latest_start, sent, scopeVars>>

\* after finalize(): `if not cls.is_ready_to_start(): logger.warning(...);
\* return`, else the reset of data_files and the timestamp
InitializeProbe ==
    /\ pc = "reprobe"
    /\ pc' = "idle"
    /\ LET raised == is_ready_to_start_raises("initialize")
       IN /\ result' = raised
          /\ exc' = IF ProbeExc(raised, "initialize") = Ok THEN exc
                     ELSE ProbeExc(raised, "initialize")
          /\ data_files' = IF raised = Ok /\ is_ready_to_start THEN ResetDataFiles
                           ELSE data_files
          /\ initialization' = IF raised = Ok /\ is_ready_to_start THEN now
                               ELSE initialization
    /\ Memoize(CanGetProxy)
    /\ buffer' = BufferAfterRead
    /\ at_call' = NotCalled
    /\ op' = "initialize"
    /\ UNCHANGED <<diskVars, sampled, all_files, histVars, tearVars, ret, new, waited, fileVars,
                   queryVars, kind, envVars, rootOk, latest_start, sent, scopeVars>>

\* the class attributes and the disk as the other specifications fix them
InitDisk ==
    /\ min_rec_hr = DefaultMinRecHr
    /\ gb_per_hr = DefaultGbPerHr
    /\ free = 0
    /\ configured = TRUE

\* --------------------------------------------------------- initial states
AllClosed == [x \in Cameras |-> Cam(FALSE, FALSE, FALSE)]

\* the class attributes as the class statements leave them
InitClass ==
    /\ proxy = FALSE
    /\ exc = Ok
    /\ latest_start = 0
    /\ sent = <<>>
    /\ op = "none"
    /\ result = Ok
    /\ scope = "out"
    /\ reraise = TRUE
    /\ observed = Ok
    /\ scopeStart = FALSE
    /\ scopeStop = FALSE
    /\ pc = "idle"
    /\ waited = 0
    /\ new = <<>>
    /\ buffer = "none"
    /\ ret = <<>>
    /\ all_files = <<>>
    /\ tested = "never"
    /\ steps = <<>>
    /\ own = NoHandle
    /\ created = 0
    /\ teardowns = 0
    /\ parent_proxy = FALSE
    /\ initialization = 0
    /\ at_call = NotCalled
    /\ sampled = <<>>

InitDevice ==
    /\ kind \in Kinds
    /\ dev = <<"READY", "">>
    /\ cams = AllClosed
    /\ online = TRUE
    /\ rootOk \in BOOLEAN

\* ------------------------------------------- locator specification
FileRecs(maxc) == [ctime : 0..maxc, ext : Exts]

RECURSIVE SeqsUpTo(_, _)
SeqsUpTo(S, n) ==
    IF n = 0 THEN {<<>>}
    ELSE LET shorter == SeqsUpTo(S, n - 1)
         IN shorter \cup {Append(s, x) : s \in {t \in shorter : Len(t) = n - 1}, x \in S}

NoQuery == [glob |-> "", start |-> 0, end |-> NoEnd]

InitFiles ==
    /\ InitDisk
    /\ files \in SeqsUpTo(FileRecs(MaxCtime), MaxFiles)
    /\ now = MaxCtime
    /\ query = NoQuery
    /\ found = <<>>
    /\ InitClass
    /\ data_files = None
    /\ kind = "Sync"
    /\ dev = <<"READY", "">>
    /\ cams = AllClosed
    /\ online = TRUE
    /\ rootOk = TRUE

Locate ==
    /\ query = NoQuery
    /\ \E g \in Globs, s \in 0..MaxCtime, e \in {NoEnd} \cup 0..MaxCtime :
        /\ query' = [glob |-> g, start |-> s, end |-> e]
        /\ found' = get_files_created_between(files, g, s, e, now)
    /\ op' = "locate"
    /\ UNCHANGED <<preVars, sampled, ret, finVars, new, fileVars, kind, envVars, buffer, rootOk, proxyVars, exc,
                   latest_start, sent, result, scopeVars>>

\* the glob get_latest_data() uses when its caller gives none
DefaultGlob(k) ==
    CASE k = "Sync" -> "*.sync"
      [] k = "VideoMVR" -> "*.mp4"
      [] OTHER -> "*"

\* Proxy.get_latest_data called directly, with or without a glob ("" is
\* glob=None); the data root is configured and accessible here
LatestData ==
    /\ query = NoQuery
    /\ \E g \in Globs \cup {""} :
        LET glob == IF g = "" THEN DefaultGlob(kind) ELSE g
        IN /\ query' = [glob |-> glob, start |-> latest_start, end |-> NoEnd]
           /\ found' = get_latest_data(glob, now)
    /\ op' = "get_latest_data"
    /\ UNCHANGED <<preVars, sampled, ret, finVars, new, fileVars, kind, envVars, buffer, rootOk, proxyVars, exc,
                   latest_start, sent, result, scopeVars>>

NextFiles ==
    \/ Locate
    \/ LatestData

SpecFiles == InitFiles /\ [][NextFiles]_vars

\* ------------------------------------------- scope-guard specification
InitScope ==
    /\ InitDisk
    /\ files = <<>>
    /\ now = 1
    /\ query = NoQuery
    /\ found = <<>>
    /\ InitClass
    /\ data_files = None
    /\ InitDevice

NextScope ==
    \/ ScopeEnter
    \/ Start
    \/ Stop
    \/ ScopeExitNormal
    \/ ScopeExitError
    \/ EnvDevice
    \/ EnvCamScenario
    \/ EnvOnline
    \/ EnvBroadcast

SpecScope == InitScope /\ [][NextScope]_vars

\* ---------------------------------------------- lifecycle specification
Init ==
    /\ InitDisk
    /\ files = <<>>
    /\ now = 1
    /\ query = NoQuery
    /\ found = <<>>
    /\ InitClass
    /\ InitDevice
    /\ rootOk
    \* cls.data_files is None as the class statement leaves it or, for
    \* VideoMVR, the [] that initialize() makes of it for a ready device
    /\ data_files \in IF kind = "VideoMVR" THEN {None, Some(<<>>)} ELSE {None}

Next ==
    \/ Start
    \/ Stop
    \/ FinalizeCall
    \/ FinalizePoll
    \/ EnvDevice
    \/ EnvCamScenario
    \/ EnvOnline
    \/ EnvBroadcast
    \/ EnvCreateFile
    \/ Tick

Spec == Init /\ [][Next]_vars

\* ----------------------------------------------- preflight specification
PreKinds == {BaseKind, "Sync", "Camstim"}
Hours == (0..MaxRate) \cup {DefaultMinRecHr}
Rates == (0..MaxRate) \cup {DefaultGbPerHr}
NearFree(hr, gb) ==
    {f \in {10 * round_1(hr * gb) + d : d \in (0 - MaxDelta)..MaxDelta} : f >= 0}

InitPreflight ==
    /\ files = <<>>
    /\ now = 1
    /\ query = NoQuery
    /\ found = <<>>
    /\ InitClass
    /\ data_files = None
    /\ kind \in PreKinds \cup {LogKind}
    /\ dev = <<"READY", "">>
    /\ cams = AllClosed
    /\ online = TRUE
    /\ rootOk \in BOOLEAN
    /\ configured \in BOOLEAN
    /\ min_rec_hr \in IF kind = LogKind THEN {DefaultMinRecHr} ELSE Hours
    /\ gb_per_hr \in IF kind = LogKind THEN {DefaultGbPerHr} ELSE Rates
    /\ free \in NearFree(min_rec_hr, gb_per_hr)

NextPreflight ==
    \/ RequiredDiskGb
    \/ DiskSpaceOk
    \/ Test
    \/ JsonWrite
    \/ EnvRoot
    \/ EnvOnline

SpecPreflight == InitPreflight /\ [][NextPreflight]_vars

\* --------------------------------------------------------------- pretest
\* One run of pretest(), as the calls it makes in order (a call made inside
\* another one follows it), the commands sent and what the run raises. What
\* the device and the files do while the run sleeps is given by `started`
\* (the device reports started when verify() asks), `growing` (the latest
\* file grows, which Sync.verify asserts) and `valid` (Sync.validate accepts
\* the data).
Run(calls, snt, res) == [steps |-> calls, sent |-> snt, res |-> res]

\* CamstimSyncShared.pretest after an initialize() that returned, which
\* leaves the device ready: start(), verify() inside stop_on_error, then
\* finalize(), whose first act is to stop the started device, and
\* validate(), which Sync defines and Camstim does not
CamstimSyncShared_pretest(snt, started, growing, valid) ==
    IF ~started \/ (kind = "Sync" /\ ~growing)
    THEN Run(<<"initialize", "start", "verify", "stop">>,
             snt \o <<"start", "stop">>, Exc("AssertionError", "verify"))
    ELSE Run(<<"initialize", "start", "verify", "finalize", "stop", "validate">>,
             snt \o <<"start", "stop">>,
             IF kind # "Sync" THEN Exc("AttributeError", "validate")
             ELSE IF valid THEN Ok ELSE Exc("AssertionError", "validate"))

\* ScriptCamstim.pretest: initialize(), test(), start(), a wait until the
\* script has ended, finalize() and initialize() again
ScriptCamstim_pretest(snt, accessible) ==
    IF Proxy_test(accessible).res # Ok
    THEN Run(<<"initialize", "test">>, snt, Proxy_test(accessible).res)
    ELSE Run(<<"initialize", "test", "start", "finalize", "initialize">>,
             snt \o <<"start">>, Ok)

pretest(lost, accessible, started, growing, valid) ==
    LET i == Proxy_initialize(lost)
    IN IF i.res # Ok THEN Run(<<"initialize">>, i.sent, i.res)
       ELSE IF kind = "ScriptCamstim" THEN ScriptCamstim_pretest(i.sent, accessible)
       ELSE CamstimSyncShared_pretest(i.sent, started, growing, valid)

Pretest ==
    /\ kind \in ZroKinds
    /\ pc = "idle"
    /\ \E lost, gone, started, growing, valid \in BOOLEAN :
        LET i == Proxy_initialize(lost)
            r == pretest(lost, rootOk /\ ~gone, started, growing, valid)
            began == "start" \in Range(r.steps)
            ended == "finalize" \in Range(r.steps)
            inits == Cardinality({n \in DOMAIN r.steps : r.steps[n] = "initialize"})
        IN /\ teardowns + inits <= MaxTeardowns
           /\ teardowns' = teardowns + inits
           /\ steps' = r.steps
           /\ sent' = r.sent
           /\ result' = r.res
           /\ proxy' = i.proxy
           /\ own' = IF parent_proxy THEN ParentHandle
                     ELSE IF i.proxy THEN created + inits ELSE NoHandle
           /\ created' = IF ~parent_proxy /\ i.proxy THEN created + inits ELSE created
           /\ online' = i.online
           /\ exc' = IF i.exc # Ok THEN i.exc
                      ELSE IF r.res.type = "AssertionError" /\ ~ended THEN r.res
                      ELSE exc
           /\ latest_start' = IF began THEN now ELSE latest_start
           /\ dev' = IF ended THEN <<"READY", "">> ELSE i.dev
           /\ data_files' = IF ended THEN Some(<<>>) ELSE i.df
           /\ tested' = IF r.res.type = "TestError" THEN "failed" ELSE "never"
           /\ initialization' = IF i.res = Ok THEN now ELSE initialization
    /\ op' = "pretest"
    /\ new' = <<>>
    /\ ret' = <<>>
    /\ UNCHANGED <<diskVars, sampled, at_call, all_files, parent_proxy, pc, waited, fileVars, queryVars, kind,
                   cams, buffer, rootOk, scopeVars>>

\* -------------------------------------------------------------- shutdown
\* Sync.shutdown: stop(), which gets a proxy to send the command, then
\* `del cls.proxy`
Shutdown ==
    /\ kind = "Sync"
    /\ pc = "idle"
    /\ teardowns < MaxTeardowns
    /\ LET e == stop
       IN /\ result' = e.res
          /\ sent' = e.sent
          /\ exc' = IF e.exc = Ok THEN exc ELSE e.exc
          /\ IF e.res # Ok
             THEN /\ Memoize(e.proxy)
                  /\ teardowns' = teardowns
             ELSE /\ proxy' = FALSE
                  /\ own' = NoHandle
                  /\ created' = IF Creates(TRUE) THEN created + 1 ELSE created
                  /\ teardowns' = teardowns + 1
    /\ op' = "shutdown"
    /\ new' = <<>>
    /\ ret' = <<>>
    /\ UNCHANGED <<diskVars, sampled, initVars, all_files, histVars, parent_proxy, finVars, fileVars, queryVars,
                   kind, envVars, buffer, rootOk, latest_start, scopeVars>>

\* the parent class of a subclass device (Camstim, for ScriptCamstim) gets a
\* proxy of its own, which the subclass then finds as cls.proxy
ParentGetProxy ==
    /\ kind = "ScriptCamstim"
    /\ ~parent_proxy
    /\ rootOk
    /\ parent_proxy' = TRUE
    /\ proxy' = TRUE
    /\ op' = "parent"
    /\ result' = Ok
    /\ sent' = <<>>
    /\ new' = <<>>
    /\ ret' = <<>>
    /\ UNCHANGED <<diskVars, sampled, initVars, all_files, histVars, teardowns, own, created, buffer, finVars,
                   fileVars, queryVars, kind, envVars, rootOk, exc, latest_start,
                   scopeVars>>

\* ------------------------------------------------ session specification
\* free space well under and well over the default requirement
SessionFree == {0, 10 * DefaultMinRecHr * DefaultGbPerHr}

InitSession ==
    /\ files = <<>>
    /\ now = 1
    /\ query = NoQuery
    /\ found = <<>>
    /\ InitClass
    /\ data_files = None
    /\ kind \in ZroKinds
    /\ dev = <<"READY", "">>
    /\ cams = AllClosed
    /\ online = TRUE
    /\ rootOk = TRUE
    /\ configured = TRUE
    /\ min_rec_hr = DefaultMinRecHr
    /\ gb_per_hr = DefaultGbPerHr
    /\ free \in SessionFree

NextSession ==
    \/ Initialize
    \/ Test
    \/ Start
    \/ Stop
    \/ Shutdown
    \/ ParentGetProxy
    \/ EnvDevice
    \/ EnvOnline
    \/ EnvRoot

SpecSession == InitSession /\ [][NextSession]_vars

\* --------------------------------------------- initialize specification
\* initialize() on each device class, one loop turn at a time, beside a
\* device that changes state, writes files and goes silent as it likes
InitBusy ==
    /\ files = <<>>
    /\ now = 1
    /\ query = NoQuery
    /\ found = <<>>
    /\ InitClass
    /\ data_files = None
    /\ kind \in Kinds
    /\ dev = <<"READY", "">>
    /\ cams = AllClosed
    /\ online = TRUE
    /\ rootOk = TRUE
    /\ configured = TRUE
    /\ min_rec_hr = DefaultMinRecHr
    /\ gb_per_hr = DefaultGbPerHr
    /\ free = 10 * DefaultMinRecHr * DefaultGbPerHr

NextInitialize ==
    \/ InitializeCall
    \/ InitializePoll
    \/ InitializeProbe
    \/ EnvDevice
    \/ EnvCamScenario
    \/ EnvBroadcast
    \/ EnvOnline
    \/ EnvCreateFile
    \/ Tick

SpecInitialize == InitBusy /\ [][NextInitialize]_vars

\* the loop of finalize() keeps turning while initialize() is inside it, and
\* initialize() goes on once finalize() has returned
SpecInitializeFair ==
    /\ SpecInitialize
    /\ WF_vars(InitializePoll)
    /\ WF_vars(InitializeProbe)

\* ----------------------------------------------- verify specification
NextVerify ==
    \/ Start
    \/ Stop
    \/ Verify
    \/ EnvDevice
    \/ EnvCamScenario
    \/ EnvBroadcast
    \/ EnvOnline
    \/ EnvRoot
    \/ EnvCreateRaw
    \/ Tick

SpecVerify == InitBusy /\ [][NextVerify]_vars

\* --------------------------------------------- validate specification
\* Sync through start, stop, finalize and validate
InitValidate == InitBusy /\ kind = "Sync"

NextValidate ==
    \/ Start
    \/ Stop
    \/ FinalizeCall
    \/ FinalizePoll
    \/ Validate
    \/ ValidatePoll
    \/ EnvDevice
    \/ EnvOnline
    \/ EnvCreateFile
    \/ EnvCreateRaw
    \/ Tick

SpecValidate == InitValidate /\ [][NextValidate]_vars

\* --------------------------------------------- readiness specification
\* every class with a readiness test, Cam3d included, beside a device that
\* goes through all the states it can report
InitReady ==
    /\ files = <<>>
    /\ now = 1
    /\ query = NoQuery
    /\ found = <<>>
    /\ InitClass
    /\ InitDisk
    /\ data_files = None
    /\ kind \in Kinds \cup {"Cam3d"}
    /\ dev = <<"READY", "">>
    /\ cams = AllClosed
    /\ online = TRUE
    /\ rootOk = TRUE

NextReady ==
    \/ Start
    \/ Stop
    \/ EnvDevice
    \/ EnvCamScenario
    \/ EnvBroadcast
    \/ EnvOnline
    \/ EnvRoot

SpecReady == InitReady /\ [][NextReady]_vars

\* ------------------------------------------- observation specification
\* what get_state() raises instead of answering: Proxy.get_state goes
\* through get_proxy(); MVR.get_state asks is_connected() first, which
\* answers False for a silent host without building a proxy
get_state_raises(site) ==
    IF kind \in StateKinds THEN is_started_raises(site)
    ELSE IF online /\ ~CanGetProxy THEN Exc("FileNotFoundError", site)
    ELSE Ok

\* `cls.proxy` after get_state(), and what the call stores in `cls.exc`
ProxyAfterState == IF kind \in MVRKinds /\ ~online THEN proxy ELSE CanGetProxy

ExcAfterState(raised, site) ==
    IF raised.type = "FileNotFoundError" THEN Exc("OSError", site)
    ELSE IF kind \in MVRKinds /\ ~online THEN Exc("ConnectionError", "is_connected")
    ELSE Ok

\* MVR.get_camera_status() begins with get_proxy().read(), which empties the
\* connector's buffer
BufferAfterStatus ==
    IF kind = "ImageMVR" /\ online /\ CanGetProxy THEN "none" ELSE buffer

\* a call of get_state()
GetState ==
    /\ pc = "idle"
    /\ scope = "out"
    /\ LET raised == get_state_raises("get_state")
       IN /\ Answer("get_state",
                    [res |-> raised,
                     val |-> IF raised = Ok THEN <<get_state>> ELSE <<>>,
                     exc |-> ExcAfterState(raised, "get_state")])
          /\ Memoize(ProxyAfterState)
    /\ buffer' = BufferAfterStatus
    /\ sampled' = <<>>
    /\ UNCHANGED <<preVars, finVars, fileVars, queryVars, kind, envVars, rootOk,
                   latest_start, scopeVars>>

\* a call of is_started(); ImageMVR.is_started reads the connector's buffer
\* and nothing else
IsStarted ==
    /\ pc = "idle"
    /\ scope = "out"
    /\ LET raised == is_started_raises("is_started")
       IN /\ Answer("is_started",
                    [res |-> raised,
                     val |-> IF raised = Ok THEN <<is_started>> ELSE <<>>,
                     exc |-> IF kind = "ImageMVR" THEN ProbeExc(raised, "is_started")
                             ELSE ExcAfterState(raised, "is_started")])
          /\ Memoize(IF kind = "ImageMVR" THEN CanGetProxy ELSE ProxyAfterState)
    /\ buffer' = IF kind = "ImageMVR" THEN BufferAfterRead ELSE BufferAfterStatus
    /\ sampled' = <<>>
    /\ UNCHANGED <<preVars, finVars, fileVars, queryVars, kind, envVars, rootOk,
                   latest_start, scopeVars>>

\* the flags get_camera_status() can report for one camera
CamFlags == [is_open : BOOLEAN, is_streaming : BOOLEAN, is_recording : BOOLEAN]

\* one camera changes its flags
EnvCamera ==
    /\ kind \in MVRKinds
    /\ \E x \in Cameras :
        \E c \in CamFlags \ {cams[x]} : cams' = [cams EXCEPT ![x] = c]
    /\ EnvStep
    /\ UNCHANGED <<preVars, buffer, finVars, fileVars, queryVars, kind, dev, online, rootOk,
                   proxyVars, exc, latest_start, scopeVars>>

\* every class with a state, beside cameras that go through every
\* combination of their flags
NextObserve ==
    \/ GetState
    \/ IsStarted
    \/ EnvDevice
    \/ EnvCamera
    \/ EnvBroadcast
    \/ EnvOnline
    \/ EnvRoot

SpecObserve == InitReady /\ [][NextObserve]_vars

\* ---------------------------------------------------- log specification
\* a JsonRecorder class that is written, read and tested while its log may
\* be overwritten from outside
InitLog ==
    /\ files = <<>>
    /\ now = 1
    /\ query = NoQuery
    /\ found = <<>>
    /\ InitClass
    /\ InitDisk
    /\ data_files = None
    /\ kind = LogKind
    /\ dev = <<"READY", "">>
    /\ cams = AllClosed
    /\ online = TRUE
    /\ rootOk \in BOOLEAN

NextLog ==
    \/ JsonWrite
    \/ JsonRead
    \/ Test
    \/ EnvCorrupt
    \/ EnvRoot

SpecLog == InitLog /\ [][NextLog]_vars

\* ------------------------------------------------ pretest specification
NextPretest ==
    \/ Pretest
    \/ Test
    \/ EnvDevice
    \/ EnvOnline
    \/ EnvRoot

SpecPretest == InitSession /\ [][NextPretest]_vars

\* ======================================================== properties
\* ---------------------------------------------------------------- C1
\* C1: when a stop_on_error scope in which start() was called is left, on
\* whatever path, stop() has been called since the scope was opened.
C1_StopOnEveryExit == (op = "scope_exit" /\ scopeStart) => scopeStop

\* ---------------------------------------------------------------- C2
\* C2 as stated: when the body of a stop_on_error scope with reraise=True
\* raises E, the code around the with statement sees exactly E, stop() has
\* been attempted, and cls.exc is E afterwards.
C2_ExactlyE_ExcIsE ==
    [][(scope = "in" /\ scope' = "out" /\ result # Ok /\ reraise)
        => (observed' = result /\ scopeStop' /\ exc' = result)]_vars

\* C2: when the body of a stop_on_error scope with reraise=True raises E, the
\* code around the with statement sees exactly E after stop() has been
\* attempted, whether or not stop() raised; cls.exc is E afterwards, unless
\* stop() had to build the proxy for a data root that cannot be accessed, and
\* then cls.exc is the OSError ensure_config() stored during stop().
C2_ExactlyE ==
    [][(scope = "in" /\ scope' = "out" /\ result # Ok /\ reraise)
        => /\ observed' = result
           /\ scopeStop'
           /\ exc' = IF kind # "ImageMVR" /\ ~proxy /\ ~rootOk
                     THEN Exc("OSError", "stop")
                     ELSE result]_vars

\* the body's start() raised AssertionError, the host then went silent, so
\* stop() raised in the handler; the AssertionError came out and is in cls.exc
C2_Witness ==
    /\ op = "scope_exit"
    /\ observed = Exc("AssertionError", "start")
    /\ exc = observed
    /\ scopeStop
    /\ kind \in ZroKinds
    /\ ~online
    /\ sent = <<>>

\* ---------------------------------------------------------------- C3
\* C3: a start() on a device that reports is_started() sends no command,
\* leaves latest_start alone and raises nothing.
C3_SecondStartNoOp ==
    [][(op' = "start" /\ online /\ is_started_raises("start") = Ok /\ is_started)
        => (sent' = <<>> /\ latest_start' = latest_start /\ result' = Ok)]_vars

\* ---------------------------------------------------------------- C4
\* C4: a start() on a reachable device that is neither started nor ready to
\* start raises AssertionError, sends no command and leaves latest_start
\* alone.
C4_NotReadyStartFails ==
    [][(op' = "start" /\ online /\ is_ready_to_start_raises("start") = Ok
            /\ ~is_started /\ ~is_ready_to_start)
        => (result'.type = "AssertionError" /\ sent' = <<>>
            /\ latest_start' = latest_start)]_vars

\* ---------------------------------------------------------------- C5
\* C5: a finalize() that is still polling has not waited longer than the
\* longest timeout a finalize() declares.
C5_FinalizeBounded == pc = "finalize" => waited <= Sec(VideoMVRTimeoutSec)

\* ---------------------------------------------------------------- C6
\* C6: for the classes whose finalize() has a timeout (VideoMVR, ImageMVR),
\* a finalize() whose deadline has passed while the device kept answering its
\* status probes returns normally and leaves data_files as it was; while it
\* waits it does not touch data_files either.
C6_TimeoutReturnsQuietly ==
    [][(op' = "finalize" /\ HasTimeout(kind))
        => /\ pc' = "finalize" => data_files' = data_files
           /\ (pc' = "idle" /\ timedout(waited')
                 /\ is_ready_to_start_raises("finalize") = Ok)
              => (result' = Ok /\ data_files' = data_files)]_vars

\* VideoMVR.finalize returned after its deadline with the cameras still not
\* ready: nothing raised, nothing added, although files since the start exist
C6_Witness ==
    /\ op = "finalize"
    /\ pc = "idle"
    /\ kind = "VideoMVR"
    /\ online
    /\ ~is_ready_to_start
    /\ timedout(waited)
    /\ result = Ok
    /\ data_files = Some(<<>>)
    /\ latest_start > 0
    /\ \E i \in DOMAIN files : files[i].ctime >= latest_start

\* ---------------------------------------------------------------- C7
\* C7: a finalize() called on a device that reports is_started() sends the
\* stop command in that call before anything else (ImageMVR, whose stop() is
\* empty, sends none) and does not collect in the same step; data_files only
\* changes in a step of finalize() whose status probe found the device ready
\* to start, and that step ends the call.
C7_StopPollCollect ==
    [][(op' = "finalize")
        => /\ (pc = "idle" /\ StopsFirst(kind) /\ is_started_raises("finalize") = Ok
                 /\ is_started)
              => (sent' = <<"stop">> /\ data_files' = data_files)
           /\ data_files' # data_files
              => (is_ready_to_start /\ ~StillProcessing(now') /\ pc' = "idle")]_vars

\* a finalize() that sent stop, slept at least once, then found the device
\* ready and collected a file
C7_Witness ==
    /\ op = "finalize"
    /\ pc = "idle"
    /\ result = Ok
    /\ sent = <<"stop">>
    /\ waited > 0
    /\ is_ready_to_start
    /\ new # <<>>
    /\ data_files = Some(new)

\* ---------------------------------------------------------------- C8
\* C8: no file get_files_created_between returns was created before `start`
\* or, when `end` is given, after `end`.
C8_NeverOutsideWindow ==
    \A k \in DOMAIN found :
        /\ files[found[k]].ctime >= query.start
        /\ query.end # NoEnd => files[found[k]].ctime <= query.end

\* ---------------------------------------------------------------- C9
\* C9: get_files_created_between returns every file that matches the glob
\* and was created in [start, end], both ends included, the current time
\* standing for an omitted end; no file twice; in ascending creation time.
C9_EveryFileInWindow ==
    query # NoQuery =>
        LET e == IF query.end = NoEnd THEN now ELSE query.end
        IN /\ \A i \in DOMAIN files :
                (/\ GlobMatches(query.glob, files[i])
                 /\ query.start <= files[i].ctime
                 /\ files[i].ctime <= e)
                => \E k \in DOMAIN found : found[k] = i
           /\ \A k, l \in DOMAIN found : found[k] = found[l] => k = l
           /\ \A k, l \in DOMAIN found :
                k < l => files[found[k]].ctime <= files[found[l]].ctime

\* two files, one created exactly at start and one exactly at end, listed by
\* the directory in the other order, both returned, the older first
C9_Witness ==
    /\ query # NoQuery
    /\ query.end # NoEnd
    /\ query.start < query.end
    /\ found = <<2, 1>>
    /\ files[2].ctime = query.start
    /\ files[1].ctime = query.end

\* --------------------------------------------------------------- C10
\* C10: every file a finalize() call has appended to data_files was created
\* at or after cls.latest_start, the time of the most recent start().
C10_OnlyFilesSinceStart ==
    (op = "finalize" /\ pc = "idle" /\ result = Ok)
        => \A k \in DOMAIN new : files[new[k]].ctime >= latest_start

\* --------------------------------------------------------------- C11
\* C11: when start() has never been called (cls.latest_start still has the
\* value of the class statement), get_latest_data() returns exactly one of
\* the files matching the pattern, not all of them.
C11_NeverStartedOneFile ==
    (/\ op = "get_latest_data"
     /\ latest_start = 0
     /\ \E i \in DOMAIN files : GlobMatches(query.glob, files[i]))
        => Len(found) = 1

\* --------------------------------------------------------------- C12
\* C12: get_required_disk_gb() returns min_rec_hr * gb_per_hr rounded to one
\* decimal place (a tenth of a GB nearest to the product) for a Startable
\* class and exactly 0.0 for a class that is not Startable, and no larger
\* min_rec_hr or gb_per_hr gives a smaller value.
C12_RequiredDiskGb ==
    (op = "get_required_disk_gb" /\ result = Ok)
        => /\ Startable(kind)
                => \E v \in 0..(DefaultMinRecHr * DefaultGbPerHr) :
                    /\ ret = <<v>>
                    /\ 10 * v - min_rec_hr * gb_per_hr \in -5..5
           /\ ~Startable(kind) => ret = <<0>>
           /\ \A hr \in Hours, gb \in Rates :
                (hr >= min_rec_hr /\ gb >= gb_per_hr)
                    => required_disk_gb(kind, hr, gb) >= ret[1]

\* Sync with 0.3 h at 0.2 GB/h: 0.06 GB, returned as 0.1
C12_Witness ==
    /\ op = "get_required_disk_gb"
    /\ result = Ok
    /\ kind = "Sync"
    /\ min_rec_hr = 3
    /\ gb_per_hr = 2
    /\ ret = <<1>>

\* --------------------------------------------------------------- C13
\* C13: is_disk_space_ok() returns True when the required capacity is 0.0,
\* whatever the state of the data root, and otherwise returns True exactly
\* when the free space at the data root is larger than the required
\* capacity (equal is not enough).
C13_DiskSpaceOk ==
    op = "is_disk_space_ok"
        => LET required == required_disk_gb(kind, min_rec_hr, gb_per_hr)
           IN /\ required = 0 => (result = Ok /\ ret = <<TRUE>>)
              /\ (required # 0 /\ result = Ok /\ exc.site # "free_gb")
                    => (ret = <<TRUE>> <=> free > 10 * required)

\* --------------------------------------------------------------- C14
\* C14: for a recording class whose data root cannot be accessed or is not
\* configured, is_disk_space_ok() returns False, raises nothing and leaves
\* the error in cls.exc.
C14_FailsClosed ==
    (/\ op = "is_disk_space_ok"
     /\ required_disk_gb(kind, min_rec_hr, gb_per_hr) # 0
     /\ ~(rootOk /\ configured))
        => (result = Ok /\ ret = <<FALSE>> /\ exc # Ok)

\* --------------------------------------------------------------- C15
\* C15: test() raises nothing but TestError; it raises TestError when the
\* host does not answer, and when it raises TestError for a host that
\* answers, the disk-space check has failed.
C15_TestErrorOnly ==
    op = "test"
        => /\ result.type \in {"None", "TestError"}
           /\ ~online => result.type = "TestError"
           /\ (online /\ result.type = "TestError")
                => \/ round_1(free) <= required_disk_gb(kind, min_rec_hr, gb_per_hr)
                   \/ exc = Exc("FileNotFoundError", "free_gb")

\* --------------------------------------------------------------- C16
\* C16: a test() call, of a proxy class or of JsonRecorder, sends no
\* command, leaves latest_start and data_files alone and leaves the contents
\* of the data files and of the log files already written as they were.
C16_TestMutatesNothing ==
    [][(op' = "test")
        => /\ sent' = <<>>
           /\ latest_start' = latest_start
           /\ data_files' = data_files
           /\ files' = files
           /\ all_files # <<>> => all_files' = all_files]_vars

\* --------------------------------------------------------------- C17
\* C17: a start() sends its start command only if the last test() since the
\* last initialize() passed.
C17_NoStartWithoutPreflight ==
    [][(op' = "start" /\ sent' = <<"start">>) => tested = "passed"]_vars

\* --------------------------------------------------------------- C18
\* C18: a pretest() that returns normally has made its calls in the order
\* initialize, test, start, verify, stop, finalize, validate: test() after
\* initialize() and before start(), stop() after verify(), and validate()
\* after finalize() and stop().
C18_PretestOrder ==
    (op = "pretest" /\ result = Ok)
        => \E i, t, s, v, p, f, d \in DOMAIN steps :
            /\ steps[i] = "initialize" /\ steps[t] = "test" /\ steps[s] = "start"
            /\ steps[v] = "verify" /\ steps[p] = "stop" /\ steps[f] = "finalize"
            /\ steps[d] = "validate"
            /\ i < t /\ t < s /\ s < v /\ v < p /\ v < f /\ p < d /\ f < d

\* --------------------------------------------------------------- C19
\* C19: a call creates a handle only if no proxy was memoized when it began
\* or the call itself tears the proxy down (initialize, pretest, shutdown);
\* a call that finds a memoized proxy and tears nothing down leaves the
\* class with the same handle; and the handles created never number more
\* than one plus the teardowns.
C19_HandleMemoized ==
    [][/\ created' # created
            => (~proxy \/ op' \in {"initialize", "pretest", "shutdown"})
       /\ (proxy /\ own # NoHandle /\ teardowns' = teardowns) => own' = own
       /\ created' <= 1 + teardowns']_vars

\* the second handle of a class, created by the initialize() that tore the
\* first one down
C19_Witness ==
    /\ op = "initialize"
    /\ result = Ok
    /\ created = 2
    /\ own = 2
    /\ teardowns = 1

\* --------------------------------------------------------------- C20
\* C20: after an initialize() that returned, the handle the class uses is
\* one created during that call.
C20_InitializeFreshHandle ==
    [][(op' = "initialize" /\ result' = Ok)
        => (created' = created + 1 /\ own' = created')]_vars

\* ---------------------------------------------------------------- C21
\* C21: an initialize() that has gone into the wait of its finalize() call
\* comes back out of it, whatever the device does; in particular for a
\* device that never becomes ready it returns (with a warning) instead of
\* waiting on.
C21_InitializeReturns == (pc = "initialize") ~> (pc # "initialize")

\* ---------------------------------------------------------------- C22
\* C22: a verify() called on a device that does not report being started
\* (its status probe answers, and says not started) raises AssertionError.
C22_VerifyRequiresStarted ==
    [][(op' = "verify" /\ is_started_raises("verify") = Ok /\ ~is_started)
        => result'.type = "AssertionError"]_vars

\* ---------------------------------------------------------------- C23
\* C23: a verify() on a device that reports being started, with an
\* accessible data root, raises AssertionError whenever evidence of output
\* is missing: no file of the raw suffix since the latest start, or (Sync)
\* a latest file of size 0 or of the same size at both samples, or
\* (VideoMVR) fewer files than cameras recording.
C23_NoEvidenceAsserts ==
    [][(/\ op' = "verify"
        /\ kind \in {"Sync", "VideoMVR"}
        /\ is_started_raises("verify") = Ok
        /\ is_started
        /\ configured
        /\ ensure_config = Ok
        /\ \/ get_latest_data(RawGlob(kind), now) = <<>>
           \/ /\ kind = "Sync"
              /\ sampled' # <<>>
              /\ (sampled'[1] = 0 \/ sampled'[1] = sampled'[2])
           \/ /\ kind = "VideoMVR"
              /\ Len(get_latest_data(RawGlob(kind), now))
                    < Cardinality(get_cameras_recording))
        => result'.type = "AssertionError"]_vars

\* ---------------------------------------------------------------- C24
\* C24: a Sync.validate() that ends for an artifact that is absent, of size
\* zero or of another suffix than .h5 ends with an AssertionError, with or
\* without h5py.
C24_BadArtifactAsserts ==
    [][(/\ op' = "validate"
        /\ pc' = "idle"
        /\ \/ sampled'[1] = NoData
           \/ sampled'[2] = 0
           \/ files[sampled'[1]].ext # "h5")
        => result'.type = "AssertionError"]_vars

\* ---------------------------------------------------------------- C25
\* C25: when a Sync.finalize() has returned normally having found exactly
\* one file, a *.h5 file, since the latest start, a validate() called
\* straight after it, for that file and with the file not empty, returns
\* normally without waiting, and data_files contains the file.
C25_FinalizeThenValidate ==
    [][(/\ op = "finalize"
        /\ pc = "idle"
        /\ result = Ok
        /\ Len(new) = 1
        /\ op' = "validate"
        /\ sampled'[1] = new[1]
        /\ sampled'[2] > 0)
        => /\ pc' = "idle"
           /\ result' = Ok
           /\ new[1] \in Range(data_files'.val)]_vars

\* the round trip happened: a started Sync was finalized, which collected
\* its one *.h5 file, and the validate() of that file, not empty, returned
C25_Witness ==
    /\ op = "validate"
    /\ pc = "idle"
    /\ result = Ok
    /\ latest_start > 0
    /\ sampled # <<>>
    /\ sampled[1] # NoData
    /\ sampled[2] > 0
    /\ files[sampled[1]].ext = "h5"
    /\ files[sampled[1]].ctime >= latest_start
    /\ data_files = Some(<<sampled[1]>>)

\* ---------------------------------------------------------------- C26
\* C26: a finalize() that returns normally straight after another
\* finalize() that returned normally, with no start() and no change of the
\* files in between, leaves data_files as the first call left it.
C26_FinalizeIdempotent ==
    [][(/\ op = "finalize"
        /\ pc = "idle"
        /\ result = Ok
        /\ op' = "finalize"
        /\ pc' = "idle"
        /\ result' = Ok)
        => data_files' = data_files]_vars

C29_DevicesIsolated ==
    [][op' = "parent"
        => /\ proxy' = proxy
           /\ own' = own
           /\ latest_start' = latest_start
           /\ data_files' = data_files
           /\ exc' = exc
           /\ <<min_rec_hr, gb_per_hr, configured>>'
                 = <<min_rec_hr, gb_per_hr, configured>>]_vars

\* ---------------------------------------------------------------- C30
\* C30: an initialize() that runs to its end on a class with a data root
\* leaves data_files the empty list, whatever its finalize() call appended;
\* an initialize() that returns early because the device is still not ready
\* after finalize() leaves data_files and the initialization timestamp as
\* they were when it was called.
C30_InitializeResets ==
    [][(op' = "initialize" /\ pc' = "idle" /\ result' = Ok)
        => IF pc = "reprobe" /\ ~is_ready_to_start
           THEN /\ data_files' = at_call.df
                /\ initialization' = at_call.initialization
           ELSE /\ configured => data_files' = Some(<<>>)
                /\ initialization' = now']_vars

\* C31: finalize() never fails for lack of an artifact list: a finalize()
\* that reaches artifact collection (no probe or stop request raised, and
\* the wait did not time out) with data_files unset returns normally, and
\* data_files is then the list of the files it discovered.
C31_UnsetListReplaced ==
    [][(/\ op' = "finalize"
        /\ pc' = "idle"
        /\ ~data_files.some
        /\ result'.type \notin {"FileNotFoundError", "ZroError", "ConnectionError"}
        /\ ~GivesUp(waited'))
       => (result' = Ok /\ data_files' = Some(new'))]_vars

\* C32: VideoMVR.finalize() issues a stop request whenever at least one
\* camera is recording when it is called, whatever the other cameras' flags
\* are (the host answers and the proxy can be built, so the request can go
\* out).
C32_StopsWhenRecording ==
    [][(/\ op' = "finalize"
        /\ pc = "idle"
        /\ kind = "VideoMVR"
        /\ online
        /\ CanGetProxy
        /\ \E x \in Cameras : cams[x].is_recording)
       => "stop" \in Range(sent')]_vars

\* C33: in VideoMVR.finalize() and ImageMVR.finalize(), a polling loop that
\* ends because the probe found the device ready (the loop condition's
\* readiness part ended it, nothing was raised) is followed by collection:
\* the files of the recording window are appended to data_files; and a
\* return without artifacts after the deadline happens only when no probe
\* up to the deadline found the device ready.
C33_ReadyLoopExitCollects ==
    [][(/\ op' = "finalize"
        /\ HasTimeout(kind)
        /\ pc' = "idle"
        /\ result' = Ok
        /\ ~StillProcessing(now'))
       => (data_files' = Collect(now').df /\ new' = Collect(now').new)]_vars

\* C34: MVR.get_state() answers by fixed priority: host not connected
\* ("", "MVR_CLOSED"); else a camera not open ("", "CAMERA_CLOSED"); else a
\* camera not streaming ("", "CAMERA_NOT_STREAMING"); else a camera
\* recording ("BUSY", "RECORDING"); else ("READY", ""). So VideoMVR's
\* is_started(), asked of a host that answers, is true exactly when all
\* cameras are open and streaming and at least one is recording.
C34_StateByPriority ==
    [][/\ (op' = "get_state" /\ kind \in MVRKinds /\ result' = Ok)
          => ret' = <<CASE ~online -> <<"", "MVR_CLOSED">>
                        [] online /\ (\E x \in Cameras : ~cams[x].is_open)
                             -> <<"", "CAMERA_CLOSED">>
                        [] online /\ (\A x \in Cameras : cams[x].is_open)
                                  /\ (\E x \in Cameras : ~cams[x].is_streaming)
                             -> <<"", "CAMERA_NOT_STREAMING">>
                        [] online /\ (\A x \in Cameras : cams[x].is_open /\ cams[x].is_streaming)
                                  /\ (\E x \in Cameras : cams[x].is_recording)
                             -> <<"BUSY", "RECORDING">>
                        [] OTHER -> <<"READY", "">> >>
       /\ (op' = "is_started" /\ kind = "VideoMVR" /\ result' = Ok /\ online)
          => ret' = << /\ \A x \in Cameras : cams[x].is_open /\ cams[x].is_streaming
                       /\ \E x \in Cameras : cams[x].is_recording >>]_vars

\* get_state() answered ("", "CAMERA_CLOSED") for one camera closed beside
\* one that is open, streaming and recording
C34_Witness ==
    /\ op = "get_state"
    /\ kind \in MVRKinds
    /\ online
    /\ \E x \in Cameras : cams[x].is_open /\ cams[x].is_streaming /\ cams[x].is_recording
    /\ \E x \in Cameras : ~cams[x].is_open
    /\ result = Ok
    /\ ret = << <<"", "CAMERA_CLOSED">> >>

\* C35: is_started() only observes: of two is_started() calls that follow
\* one another with no step of the device or its surroundings in between,
\* both answering, the second returns what the first returned; for every
\* class, ImageMVR included.
C35_IsStartedRepeatable ==
    [][(/\ op = "is_started"
        /\ op' = "is_started"
        /\ result = Ok
        /\ result' = Ok)
       => ret' = ret]_vars

\* C36: on an initialized JsonRecorder class whose log directory can be
\* reached, a read() that returns gives
\* the object in the current log (the last of all_files) and changes no
\* file; a write(v) to a current log that is empty or holds an object leaves
\* in it that object updated with v (v's keys with v's values, the other
\* keys as they were), so the read() after it returns just that; and a
\* write(v) to a current log that is not JSON leaves every file as it was
\* and appends to all_files a new log holding only v, which is then the
\* current log of every later read() and write().
C36_WriteThenRead ==
    [][/\ (op' = "read" /\ result' = Ok /\ all_files # <<>>)
          => /\ ret' = <<all_files[Len(all_files)].data>>
             /\ all_files' = all_files
       /\ (op' = "write" /\ all_files # <<>> /\ rootOk)
          => LET n == Len(all_files)
                 cur == all_files[n]
                 v == sampled'[1]
                 kept == {p \in cur.data : \A q \in v : q[1] # p[1]}
             IN /\ result' = Ok
                /\ JsonRecorder_read'.res = Ok
                /\ IF cur.bytes = "other"
                   THEN /\ all_files' = Append(all_files, all_files'[n + 1])
                        /\ JsonRecorder_read'.val = <<v>>
                   ELSE /\ Len(all_files') = n
                        /\ \A i \in 1..(n - 1) : all_files'[i] = all_files[i]
                        /\ JsonRecorder_read'.val = <<kept \cup v>>]_vars

\* a write() found the log corrupt and started a second log that holds only
\* the value written, beside the untouched first one
C36_Witness ==
    /\ op = "write"
    /\ result = Ok
    /\ Len(all_files) = 2
    /\ all_files[1] = CorruptLog
    /\ sampled # <<>>
    /\ sampled[1] # {}
    /\ all_files[2] = JsonLog(sampled[1])

====
